---- MODULE Spec2Model ----
(***************************************************************************)
(* Dialogue state machine, session store and completion client of the      *)
(* prompt-generator bot (main.py, session_manager.py, llm_client.py).      *)
(*                                                                         *)
(* Texts are sequences of one-character strings, so that strip(), split()  *)
(* and the length checks of the handlers are computed, not assumed.        *)
(* One action is one handler run from its first to its last statement;    *)
(* what the completion service answers is an input of the action.          *)
(* call holds one run of _call_with_retry taken request by request, eval   *)
(* the application of functions of llm_client.py and utils.py to a text,   *)
(* tasks the handlers that are suspended in an await.                      *)
(***************************************************************************)
EXTENDS Integers, Sequences, FiniteSets, TLC

VARIABLES sessions, fsm, last, asked, call, eval, tasks

vars == <<sessions, fsm, last, asked, call, eval, tasks>>

(***************************************************************************)
(* Bounds of the model and constants of the program                        *)
(***************************************************************************)
\* number of answer messages followed per question list
MaxAnswerMsgs == 3

\* number of edits of the document followed per session
MaxEdits == 2

\* greatest max_retries a call of _call_with_retry is given
MaxAttempts == 4

\* greatest length of a generated response of the completion service
MaxResponseLen == 4

\* number of functions of utils.py applied to a document in a row
MaxSteps == 2

\* number of handlers suspended at the same time
MaxTasks == 2

\* config.py
MAX_RETRIES == 3
RETRY_DELAY == 1

\* main.py:376, len(task_description.strip()) < 10
MinTaskLen == 10

\* llm_client.py:142, response[:200]
TechStackMax == 200

Users == {"u1"}

(***************************************************************************)
(* Python values                                                           *)
(***************************************************************************)
\* None, where a text is expected (Message.text of a photo, message.content)
None == <<"<None>">>

\* bool(x) of a str, a list or None
Truthy(x) == x # None /\ x # <<>>

IsDigit(c) == c \in {"0", "1", "2", "3", "4", "5", "6", "7", "8", "9"}

RECURSIVE LStripSet(_, _)
\* str.lstrip(chars)
LStripSet(s, chars) ==
    IF s # <<>> /\ Head(s) \in chars THEN LStripSet(Tail(s), chars) ELSE s

RECURSIVE RStripSet(_, _)
\* str.rstrip(chars)
RStripSet(s, chars) ==
    IF s # <<>> /\ s[Len(s)] \in chars
    THEN RStripSet(SubSeq(s, 1, Len(s) - 1), chars) ELSE s

\* strip() left out
StripOmitted(s) == s

\* str.strip()
Strip(s) == RStripSet(LStripSet(s, {" ", "\n", "\t"}), {" ", "\n", "\t"})

\* the least 0-based index >= i of c in s, -1 when there is none
FindFrom(s, c, i) ==
    LET found == {k \in i..(Len(s) - 1) : s[k + 1] = c}
    IN  IF found = {} THEN -1 ELSE CHOOSE k \in found : \A j \in found : k <= j

\* str.find(c)
Find(s, c) == FindFrom(s, c, 0)

\* the greatest 0-based index <= i of c in s, -1 when there is none
RFindFrom(s, c, i) ==
    LET found == {k \in 0..i : s[k + 1] = c}
    IN  IF found = {} THEN -1 ELSE CHOOSE k \in found : \A j \in found : k >= j

\* str.rfind(c)
RFind(s, c) == RFindFrom(s, c, Len(s) - 1)

\* s[a:b] for 0 <= a, 0 <= b
Slice(s, a, b) == SubSeq(s, a + 1, IF b > Len(s) THEN Len(s) ELSE b)

RECURSIVE Split(_, _)
\* str.split(sep) for a one-character separator
Split(s, sep) ==
    LET i == Find(s, sep)
    IN  IF i = -1 THEN <<s>>
        ELSE <<Slice(s, 0, i)>> \o Split(Slice(s, i + 1, Len(s)), sep)

\* str.split(sep, 1)[-1]
AfterFirst(s, sep) ==
    LET i == Find(s, sep)
    IN  IF i = -1 THEN s ELSE Slice(s, i + 1, Len(s))

(***************************************************************************)
(* dict: insertion-ordered sequence of [k, v]                              *)
(***************************************************************************)
DictHas(d, k) == \E i \in 1..Len(d) : d[i].k = k

DictGet(d, k) == d[CHOOSE i \in 1..Len(d) : d[i].k = k].v

\* d[k] = v : a present key keeps its place, a new key goes last
DictSet(d, k, v) ==
    IF DictHas(d, k)
    THEN [i \in 1..Len(d) |-> IF d[i].k = k THEN [k |-> k, v |-> v] ELSE d[i]]
    ELSE Append(d, [k |-> k, v |-> v])

\* a dict taken for true whenever it is not None
DictTruthyEvenEmpty(d) == TRUE

\* bool(d) of a dict
DictTruthy(d) == d # <<>>

(***************************************************************************)
(* session_manager.py                                                      *)
(***************************************************************************)
\* the record get_session creates; created_at is written once and never
\* read, and the saved_at that /save adds is never read either
DefaultSession ==
    [task_description |-> <<>>,
     clarification_questions |-> <<>>,
     answers |-> <<>>,
     recommendations |-> <<>>,
     current_prompt |-> <<>>,
     edited_count |-> 0]

\* the store after get_session(user_id); the session is then ss[u]
get_session(ss, u) ==
    IF u \in DOMAIN ss THEN ss ELSE ss @@ (u :> DefaultSession)

\* the description stored stripped
update_task_description_stripped(ss, u, description) ==
    [get_session(ss, u) EXCEPT ![u].task_description = Strip(description)]

update_task_description(ss, u, description) ==
    [get_session(ss, u) EXCEPT ![u].task_description = description]

set_clarification_questions(ss, u, questions) ==
    [get_session(ss, u) EXCEPT ![u].clarification_questions = questions]

add_answer(ss, u, question, answer) ==
    [get_session(ss, u) EXCEPT ![u].answers = DictSet(@, question, answer)]

\* recommendations stored only where none are stored yet
set_recommendations_once(ss, u, recommendations) ==
    [get_session(ss, u) EXCEPT
        ![u].recommendations = IF @ = <<>> THEN recommendations ELSE @]

set_recommendations(ss, u, recommendations) ==
    [get_session(ss, u) EXCEPT ![u].recommendations = recommendations]

\* the prompt appended to the stored one
set_current_prompt_appended(ss, u, prompt) ==
    [get_session(ss, u) EXCEPT ![u].current_prompt = @ \o prompt]

set_current_prompt(ss, u, prompt) ==
    [get_session(ss, u) EXCEPT ![u].current_prompt = prompt]

\* the count left as it is
update_prompt_uncounted(ss, u, new_prompt) ==
    [get_session(ss, u) EXCEPT ![u].current_prompt = new_prompt]

update_prompt(ss, u, new_prompt) ==
    [get_session(ss, u) EXCEPT ![u].current_prompt = new_prompt,
                               ![u].edited_count = @ + 1]

\* the fields reset, the entry kept
clear_session_kept(ss, u) ==
    IF u \in DOMAIN ss THEN [ss EXCEPT ![u].answers = <<>>] ELSE ss

\* every session deleted, not only that of user_id
clear_session_of_all(ss, u) == <<>>

clear_session(ss, u) ==
    IF u \in DOMAIN ss THEN [x \in DOMAIN ss \ {u} |-> ss[x]] ELSE ss

\* what a reader of the store sees for u: the stored session, or the default
\* one get_session would create
SessionView(ss, u) == get_session(ss, u)[u]

(***************************************************************************)
(* llm_client.py                                                           *)
(***************************************************************************)
\* What the completion service does with one request: "error" is an
\* OpenAIError, "unexpected" any other exception, "ok" a response whose
\* message content is `content` (a text, or None).
ServiceError == [kind |-> "error", content |-> None]

Unexpected == [kind |-> "unexpected", content |-> None]

Ok(content) == [kind |-> "ok", content |-> content]

\* A script fixes the service's behaviour during one _call_with_retry: the
\* first `fails` requests end in an OpenAIError, the next one in `final`.
OutcomeAt(script, attempt) ==
    IF attempt < script.fails THEN ServiceError ELSE script.final

RECURSIVE retry_loop(_, _, _, _, _)
\* the for loop of _call_with_retry, entered at `attempt` with `delay`
retry_loop(script, max_retries, attempt, delay, waits) ==
    IF attempt >= max_retries
    THEN [raised |-> FALSE, value |-> None, requests |-> attempt, waits |-> waits]
    ELSE LET o == OutcomeAt(script, attempt)
         IN  CASE o.kind = "ok" ->
                    [raised |-> FALSE, value |-> o.content,
                     requests |-> attempt + 1, waits |-> waits]
               [] o.kind = "error" ->
                    IF attempt < max_retries - 1
                    THEN retry_loop(script, max_retries, attempt + 1, delay * 2,
                                    Append(waits, delay))
                    ELSE [raised |-> TRUE, value |-> None,
                          requests |-> attempt + 1, waits |-> waits]
               [] OTHER ->
                    [raised |-> TRUE, value |-> None,
                     requests |-> attempt + 1, waits |-> waits]

call_with_retry(script, max_retries) ==
    retry_loop(script, max_retries, 0, RETRY_DELAY, <<>>)

\* no run of _call_with_retry under way
NoCall ==
    [pc |-> "idle", max_retries |-> 0, script |-> [fails |-> 0, final |-> Unexpected],
     attempt |-> 0, delay |-> 0, log |-> <<>>, value |-> None, error |-> None]

\* an entry of call.log: a request sent to the service, or a sleep
Requested == [op |-> "request", delay |-> 0]

Slept(delay) == [op |-> "sleep", delay |-> delay]

\* _call_with_retry entered: delay = config.RETRY_DELAY, and the for loop
\* either takes its first attempt or, with no attempt to take, falls
\* through to `return None`
call_enter(max_retries, script) ==
    /\ call.pc \in {"idle", "returned", "raised"}
    /\ call' = [pc |-> IF max_retries > 0 THEN "request" ELSE "returned",
                max_retries |-> max_retries, script |-> script, attempt |-> 0,
                delay |-> RETRY_DELAY, log |-> <<>>, value |-> None,
                error |-> None]
    /\ UNCHANGED <<sessions, fsm, last, asked, eval, tasks>>

\* the last attempt slept after like the others
call_request_always_sleeping ==
    /\ call.pc = "request"
    /\ LET o == OutcomeAt(call.script, call.attempt)
           log == Append(call.log, Requested)
       IN  call' = CASE o.kind = "ok" ->
                          [call EXCEPT !.pc = "returned", !.log = log,
                                       !.value = o.content]
                     [] o.kind = "error" ->
                          [call EXCEPT !.pc = "sleep", !.log = log]
                     [] OTHER ->
                          [call EXCEPT !.pc = "raised", !.log = log,
                                       !.error = [kind |-> o.kind,
                                                  attempt |-> call.attempt]]
    /\ UNCHANGED <<sessions, fsm, last, asked, eval, tasks>>

\* one pass of the try block: the request, and what its outcome leads to
call_request ==
    /\ call.pc = "request"
    /\ LET o == OutcomeAt(call.script, call.attempt)
           log == Append(call.log, Requested)
       IN  call' = CASE o.kind = "ok" ->
                          [call EXCEPT !.pc = "returned", !.log = log,
                                       !.value = o.content]
                     [] o.kind = "error" /\ call.attempt < call.max_retries - 1 ->
                          [call EXCEPT !.pc = "sleep", !.log = log]
                     [] OTHER ->
                          [call EXCEPT !.pc = "raised", !.log = log,
                                       !.error = [kind |-> o.kind,
                                                  attempt |-> call.attempt]]
    /\ UNCHANGED <<sessions, fsm, last, asked, eval, tasks>>

\* the delay kept the same from sleep to sleep
call_sleep_constant ==
    /\ call.pc = "sleep"
    /\ call' = [call EXCEPT
                   !.pc = IF call.attempt + 1 < call.max_retries THEN "request"
                          ELSE "returned",
                   !.log = Append(call.log, Slept(call.delay)),
                   !.attempt = call.attempt + 1]
    /\ UNCHANGED <<sessions, fsm, last, asked, eval, tasks>>

\* asyncio.sleep(delay), delay *= 2, and the next turn of the for loop
call_sleep ==
    /\ call.pc = "sleep"
    /\ call' = [call EXCEPT
                   !.pc = IF call.attempt + 1 < call.max_retries THEN "request"
                          ELSE "returned",
                   !.log = Append(call.log, Slept(call.delay)),
                   !.delay = call.delay * 2,
                   !.attempt = call.attempt + 1]
    /\ UNCHANGED <<sessions, fsm, last, asked, eval, tasks>>

\* no function applied yet
NoEval == [fn |-> "none", response |-> None, out |-> None]

\* one generation entry point invoked by a handler: its arguments, whether
\* it raised, and what it returned if it did not
Call(kind, args, raised, value) ==
    [kind |-> kind, args |-> args, raised |-> raised, value |-> value]

Result(kind, args, raised, value) ==
    [raised |-> raised, value |-> value, call |-> Call(kind, args, raised, value)]

\* the candidate question of one line of the response, <<>> when the line
\* gives none
QuestionOfLine(rawLine) ==
    LET line == Strip(rawLine)
    IN  IF line # <<>> /\ (IsDigit(line[1]) \/ line[1] = "-")
        THEN LET question == Strip(LStripSet(Strip(AfterFirst(line, ".")), {"-", " "}))
             IN  IF question # <<>> /\ question[Len(question)] = "?"
                 THEN <<question>> ELSE <<>>
        ELSE <<>>

RECURSIVE QuestionsOfLines(_)
QuestionsOfLines(lines) ==
    IF lines = <<>> THEN <<>>
    ELSE QuestionOfLine(Head(lines)) \o QuestionsOfLines(Tail(lines))

\* the parsing part of generate_clarification_questions
extract_questions(response) ==
    LET questions == QuestionsOfLines(Split(Strip(response), "\n"))
    IN  IF questions = <<>> THEN <<Strip(response)>> ELSE questions

generate_clarification_questions(task_description, script) ==
    LET r == call_with_retry(script, MAX_RETRIES)
        args == <<task_description>>
    IN  IF r.raised \/ ~Truthy(r.value)
        THEN Result("questions", args, TRUE, <<>>)
        ELSE Result("questions", args, FALSE, extract_questions(r.value))

\* "Требуется уточнение"
NeedsClarification == <<"Trebuetsya utochnenie">>

\* a JSON number, where the model's prompts ask for a list of strings
JsonInt1 == <<"<1>">>

\* {}
EmptyObjText == <<"{", "}">>

\* {"tech_stack":"py"}
StackObjText ==
    <<"{", "\"", "t", "e", "c", "h", "_", "s", "t", "a", "c", "k", "\"", ":",
      "\"", "p", "y", "\"", "}">>

\* {"risks":1}
RisksObjText == <<"{", "\"", "r", "i", "s", "k", "s", "\"", ":", "1", "}">>

\* json.loads on the texts the model feeds it, which begin with '{' and end
\* with '}': an object without members, whatever white space it holds, or
\* one of the two objects above; any other text is not JSON
json_loads(s) ==
    CASE /\ Len(s) >= 2 /\ s[1] = "{" /\ s[Len(s)] = "}"
         /\ \A i \in 2..(Len(s) - 1) : s[i] \in {" ", "\n", "\t", "\r"} ->
            [ok |-> TRUE, obj |-> <<>>]
      [] s = StackObjText ->
            [ok |-> TRUE, obj |-> <<[k |-> "tech_stack", v |-> <<"p", "y">>]>>]
      [] s = RisksObjText ->
            [ok |-> TRUE, obj |-> <<[k |-> "risks", v |-> JsonInt1]>>]
      [] OTHER -> [ok |-> FALSE, obj |-> <<>>]

\* the record built when the response holds no {...}
NoJsonRecord(response) ==
    <<[k |-> "tech_stack",
       v |-> IF Len(response) > TechStackMax THEN Slice(response, 0, TechStackMax)
             ELSE response],
      [k |-> "architecture", v |-> NeedsClarification],
      [k |-> "key_features", v |-> <<>>],
      [k |-> "scalability", v |-> NeedsClarification],
      [k |-> "compliance", v |-> NeedsClarification],
      [k |-> "risks", v |-> <<>>],
      [k |-> "recommendation_summary", v |-> response]>>

\* the record built when json.loads raises JSONDecodeError
BadJsonRecord(response) ==
    <<[k |-> "tech_stack", v |-> NeedsClarification],
      [k |-> "architecture", v |-> NeedsClarification],
      [k |-> "key_features", v |-> <<>>],
      [k |-> "scalability", v |-> NeedsClarification],
      [k |-> "compliance", v |-> NeedsClarification],
      [k |-> "risks", v |-> <<>>],
      [k |-> "recommendation_summary", v |-> response]>>

\* the parsing part of generate_recommendations
normalize_recommendations(response) ==
    LET json_start == Find(response, "{")
        json_end == RFind(response, "}") + 1
    IN  IF json_start # -1 /\ json_end > json_start
        THEN LET p == json_loads(Slice(response, json_start, json_end))
             IN  IF p.ok THEN p.obj ELSE BadJsonRecord(response)
        ELSE NoJsonRecord(response)

generate_recommendations(task_description, answers, script) ==
    LET r == call_with_retry(script, MAX_RETRIES)
        args == <<task_description, answers>>
    IN  IF r.raised \/ ~Truthy(r.value)
        THEN Result("recommendations", args, TRUE, <<>>)
        ELSE Result("recommendations", args, FALSE, normalize_recommendations(r.value))

\* ', '.join(recommendations.get(key, [])) raises TypeError
JoinRaises(recommendations, key) ==
    DictHas(recommendations, key) /\ DictGet(recommendations, key) = JsonInt1

generate_final_prompt(task_description, recommendations, script) ==
    LET args == <<task_description, recommendations>>
    IN  IF JoinRaises(recommendations, "key_features")
           \/ JoinRaises(recommendations, "risks")
        THEN Result("final", args, TRUE, <<>>)
        ELSE LET r == call_with_retry(script, MAX_RETRIES)
             IN  IF r.raised \/ ~Truthy(r.value)
                 THEN Result("final", args, TRUE, <<>>)
                 ELSE Result("final", args, FALSE, Strip(r.value))

(***************************************************************************)
(* utils.py: the document and its sections                                 *)
(***************************************************************************)
\* a Cyrillic word is one element of a text, written in Latin letters:
\* upper case stands for its upper-case form, lower case for the lower one,
\* "Polnyi prompt" for the capitalised one
LowerLetters ==
    <<"a", "b", "c", "d", "e", "f", "g", "h", "i", "j", "k", "l", "m", "n",
      "o", "p", "q", "r", "s", "t", "u", "v", "w", "x", "y", "z",
      "zadacha", "trebovaniya", "arhitektura", "dopolnitelnye", "format",
      "polnyi prompt">>

UpperLetters ==
    <<"A", "B", "C", "D", "E", "F", "G", "H", "I", "J", "K", "L", "M", "N",
      "O", "P", "Q", "R", "S", "T", "U", "V", "W", "X", "Y", "Z",
      "ZADACHA", "TREBOVANIYA", "ARHITEKTURA", "DOPOLNITELNYE", "FORMAT",
      "POLNYI PROMPT">>

\* str.upper()
Upper(s) ==
    [i \in 1..Len(s) |->
        IF s[i] = "Polnyi prompt" THEN "POLNYI PROMPT"
        ELSE IF \E j \in 1..Len(LowerLetters) : LowerLetters[j] = s[i]
        THEN UpperLetters[CHOOSE j \in 1..Len(LowerLetters) : LowerLetters[j] = s[i]]
        ELSE s[i]]

\* str.lower()
Lower(s) ==
    [i \in 1..Len(s) |->
        IF s[i] = "Polnyi prompt" THEN "polnyi prompt"
        ELSE IF \E j \in 1..Len(UpperLetters) : UpperLetters[j] = s[i]
        THEN LowerLetters[CHOOSE j \in 1..Len(UpperLetters) : UpperLetters[j] = s[i]]
        ELSE s[i]]

\* sub in s
Contains(s, sub) ==
    \E i \in 0..(Len(s) - Len(sub)) : SubSeq(s, i + 1, i + Len(sub)) = sub

RECURSIVE Join(_, _)
\* sep.join(parts)
Join(parts, sep) ==
    IF parts = <<>> THEN <<>>
    ELSE IF Len(parts) = 1 THEN parts[1]
    ELSE parts[1] \o sep \o Join(Tail(parts), sep)

\* the keywords that make a line starting with '#' a heading
Keywords ==
    {<<"ZADACHA">>, <<"G", "O", "A", "L">>, <<"TREBOVANIYA">>,
     <<"R", "E", "Q", "U", "I", "R", "E", "M", "E", "N", "T", "S">>,
     <<"T", "E", "C", "H", " ", "S", "T", "A", "C", "K">>, <<"ARHITEKTURA">>,
     <<"A", "R", "C", "H", "I", "T", "E", "C", "T", "U", "R", "E">>,
     <<"DOPOLNITELNYE">>,
     <<"A", "D", "D", "I", "T", "I", "O", "N", "A", "L">>,
     <<"O", "U", "T", "P", "U", "T">>, <<"FORMAT">>}

\* "Полный промпт", the key of a document without headings
FullPromptKey == <<"Polnyi prompt">>

\* "# ТРЕБОВАНИЯ / # REQUIREMENTS"
NewRequirementsKey ==
    <<"#", " ", "TREBOVANIYA", " ", "/", " ", "#", " ",
      "R", "E", "Q", "U", "I", "R", "E", "M", "E", "N", "T", "S">>

is_heading(line) ==
    /\ Strip(line) # <<>>
    /\ Strip(line)[1] = "#"
    /\ \E keyword \in Keywords : Contains(Upper(line), keyword)

RECURSIVE parse_lines(_, _, _, _)
\* the for loop of parse_sections and the saving of the last section
parse_lines(lines, sections, current_section, current_content) ==
    IF lines = <<>>
    THEN IF Truthy(current_section)
         THEN DictSet(sections, current_section,
                      Strip(Join(current_content, <<"\n">>)))
         ELSE sections
    ELSE LET line == Head(lines)
         IN  IF is_heading(line)
             THEN parse_lines(Tail(lines),
                              IF Truthy(current_section)
                              THEN DictSet(sections, current_section,
                                           Strip(Join(current_content, <<"\n">>)))
                              ELSE sections,
                              Strip(line), <<>>)
             ELSE parse_lines(Tail(lines), sections, current_section,
                              IF Truthy(current_section)
                              THEN Append(current_content, line)
                              ELSE current_content)

parse_sections(prompt) ==
    LET sections == parse_lines(Split(prompt, "\n"), <<>>, None, <<>>)
    IN  IF sections = <<>> THEN <<[k |-> FullPromptKey, v |-> prompt]>>
        ELSE sections

get_section_list(prompt) ==
    LET sections == parse_sections(prompt)
    IN  [i \in 1..Len(sections) |-> sections[i].k]

RECURSIVE section_lines(_)
\* heading, body and an empty line for every section
section_lines(sections) ==
    IF sections = <<>> THEN <<>>
    ELSE <<sections[1].k, sections[1].v, <<>>>> \o section_lines(Tail(sections))

\* '\n'.join(result).strip()
assemble(sections) == Strip(Join(section_lines(sections), <<"\n">>))

\* the key the loop of update_section stops at
matches_section(section_name, section_key) ==
    \/ Contains(Lower(section_key), Lower(section_name))
    \/ Contains(Lower(section_name), Lower(section_key))

update_section(prompt, section_name, new_content) ==
    LET sections == parse_sections(prompt)
        hits == {i \in 1..Len(sections) : matches_section(section_name, sections[i].k)}
    IN  IF hits # {}
        THEN LET first == CHOOSE i \in hits : \A j \in hits : i <= j
             IN  assemble(DictSet(sections, sections[first].k, new_content))
        ELSE assemble(DictSet(sections, <<"#", " ">> \o Upper(section_name),
                              new_content))

is_requirements_key(section_key) ==
    \/ Contains(Upper(section_key), <<"TREBOVANIYA">>)
    \/ Contains(Upper(section_key),
                <<"R", "E", "Q", "U", "I", "R", "E", "M", "E", "N", "T", "S">>)

\* the first key of the requirements, None when there is none
requirements_section(sections) ==
    LET hits == {i \in 1..Len(sections) : is_requirements_key(sections[i].k)}
    IN  IF hits = {} THEN None
        ELSE sections[CHOOSE i \in hits : \A j \in hits : i <= j].k

add_requirement_to_prompt(prompt, requirement) ==
    LET sections == parse_sections(prompt)
        key == requirements_section(sections)
    IN  IF key # None
        THEN assemble(DictSet(sections, key,
                              DictGet(sections, key) \o <<"\n", "-", " ">>
                                  \o requirement))
        ELSE assemble(DictSet(sections, NewRequirementsKey,
                              <<"-", " ">> \o requirement))

\* the lines kept by remove_requirement_from_prompt
filtered_lines(lines, requirement_text) ==
    SelectSeq(lines, LAMBDA line : ~Contains(Lower(line), Lower(requirement_text)))

remove_requirement_from_prompt(prompt, requirement_text) ==
    LET sections == parse_sections(prompt)
        key == requirements_section(sections)
    IN  IF key # None
        THEN assemble(DictSet(sections, key,
                 Strip(Join(filtered_lines(Split(DictGet(sections, key), "\n"),
                                           requirement_text), <<"\n">>))))
        ELSE assemble(sections)

(***************************************************************************)
(* states.py, and the replies of main.py                                   *)
(***************************************************************************)
\* the state of a user that has none (state.clear(), or never set)
NoState == "none"

States ==
    {"waiting_for_task_description", "waiting_for_clarification_answers",
     "showing_recommendations", "waiting_for_recommendation_decision",
     "prompt_generated", "editing_section", "adding_requirement",
     "removing_requirement"}

\* what the handling of one event did: the state it found the user in, the
\* replies it sent, the generation entry points it invoked, and whether it
\* ended in an unhandled exception
Event(u, ev, text, replies, calls, raised) ==
    [user |-> u, ev |-> ev, from |-> fsm[u], text |-> text, replies |-> replies,
     calls |-> calls, raised |-> raised]

\* asked[u] follows the question list a user is answering: the texts
\* process_clarification_answer has handled since the list was stored, and
\* whether it has invoked generate_recommendations since; it is empty while
\* the user is in another state
NoHistory == [msgs |-> <<>>, triggered |-> FALSE]

(***************************************************************************)
(* Inputs                                                                  *)
(***************************************************************************)
\* "  build bot ", 12 characters of which 9 remain after strip()
PaddedShortTask == <<" ", " ", "b", "u", "i", "l", "d", " ", "b", "o", "t", " ">>

\* "build abot", 10 characters
TenCharTask == <<"b", "u", "i", "l", "d", " ", "a", "b", "o", "t">>

\* " build abot", 11 characters of which 10 remain after strip()
PaddedTask == <<" ">> \o TenCharTask

TaskTexts == {None, <<>>, PaddedShortTask, TenCharTask, PaddedTask}

AnswerTexts == {<<"x">>, <<"y">>}

\* "1. A?"
OneQuestion == <<"1", ".", " ", "A", "?">>

\* "- A?\n- B?\n"
TwoQuestions == <<"-", " ", "A", "?", "\n", "-", " ", "B", "?", "\n">>

\* "1. A?\n2. A?\n3. B?"
RepeatedQuestion ==
    <<"1", ".", " ", "A", "?", "\n", "2", ".", " ", "A", "?", "\n",
      "3", ".", " ", "B", "?">>

QuestionResponses == {None, <<>>, OneQuestion, TwoQuestions, RepeatedQuestion}

\* "use py"
PlainRecommendation == <<"u", "s", "e", " ", "p", "y">>

RecommendationResponses ==
    {None, <<>>, PlainRecommendation, EmptyObjText,
     <<"a", " ">> \o StackObjText \o <<".">>, RisksObjText}

\* " # GOAL\nx\n"
GoalDocument == <<" ", "#", " ", "G", "O", "A", "L", "\n", "x", "\n">>

FinalResponses == {None, <<>>, <<" ", "\n">>, GoalDocument}

\* the service fails never, as often as a call survives, or every time
Fails == {0, MAX_RETRIES - 1, MAX_RETRIES}

\* when every request fails, what a further request would bring is not read
Scripts(responses) ==
    {[fails |-> MAX_RETRIES, final |-> ServiceError]}
        \cup [fails : Fails \ {MAX_RETRIES},
              final : {Unexpected} \cup {Ok(c) : c \in responses}]

(***************************************************************************)
(* main.py: commands and buttons                                           *)
(***************************************************************************)
\* clear_session, state.clear(), set_state(waiting_for_task_description)
Restart(u, ev, reply) ==
    /\ UNCHANGED <<call, eval, tasks>>
    /\ sessions' = clear_session(sessions, u)
    /\ fsm' = [fsm EXCEPT ![u] = "waiting_for_task_description"]
    /\ asked' = [asked EXCEPT ![u] = NoHistory]
    /\ last' = Event(u, ev, None, <<reply>>, <<>>, FALSE)

cmd_start(u) == Restart(u, "cmd_start", "welcome")

cmd_restart(u) == Restart(u, "cmd_restart", "restart_welcome")

process_restart_callback(u) == Restart(u, "cb_restart", "restart_welcome")

\* the body of process_accept_recommendations, run for the button
process_accept_recommendations(u) ==
    /\ UNCHANGED <<call, eval, tasks>>
    /\ LET ss == get_session(sessions, u)
           task_description == ss[u].task_description
           recommendations == ss[u].recommendations
       IN  IF ~Truthy(task_description) \/ ~DictTruthy(recommendations)
           THEN /\ sessions' = ss
                /\ last' = Event(u, "cb_accept", None, <<"insufficient_data_prompt">>,
                                 <<>>, FALSE)
                /\ UNCHANGED <<fsm, asked>>
           ELSE \E script \in Scripts(FinalResponses) :
                LET g == generate_final_prompt(task_description, recommendations, script)
                IN  IF g.raised
                    THEN /\ sessions' = ss
                         /\ last' = Event(u, "cb_accept", None,
                                          <<"generating", "error">>, <<g.call>>, FALSE)
                         /\ UNCHANGED <<fsm, asked>>
                    ELSE /\ sessions' = set_current_prompt(ss, u, g.value)
                         /\ fsm' = [fsm EXCEPT ![u] = "prompt_generated"]
                         /\ asked' = [asked EXCEPT ![u] = NoHistory]
                         /\ last' = Event(u, "cb_accept", None,
                                          <<"generating", "prompt_generated">>,
                                          <<g.call>>, FALSE)

\* the body of process_rethink_recommendations, run for the button
process_rethink_recommendations(u) ==
    /\ UNCHANGED <<call, eval, tasks>>
    /\ LET ss == get_session(sessions, u)
           task_description == ss[u].task_description
           answers == ss[u].answers
       IN  IF ~Truthy(task_description) \/ ~DictTruthy(answers)
           THEN /\ sessions' = ss
                /\ last' = Event(u, "cb_rethink", None, <<"insufficient_data_rethink">>,
                                 <<>>, FALSE)
                /\ UNCHANGED <<fsm, asked>>
           ELSE \E script \in Scripts(RecommendationResponses) :
                LET g == generate_recommendations(task_description, answers, script)
                IN  /\ sessions' = IF g.raised THEN ss
                                   ELSE set_recommendations(ss, u, g.value)
                    /\ last' = Event(u, "cb_rethink", None,
                                     <<IF g.raised THEN "error" ELSE "recommendations">>,
                                     <<g.call>>, FALSE)
                    /\ UNCHANGED <<fsm, asked>>

\* /accept passes its Message where the CallbackQuery is expected:
\* callback.answer() is Message.answer() without its text, a TypeError that
\* nothing catches
cmd_accept(u) ==
    /\ UNCHANGED <<call, eval, tasks>>
    /\ last' = IF fsm[u] # "showing_recommendations"
               THEN Event(u, "cmd_accept", None, <<"no_active_recommendations">>,
                          <<>>, FALSE)
               ELSE Event(u, "cmd_accept", None, <<>>, <<>>, TRUE)
    /\ UNCHANGED <<sessions, fsm, asked>>

\* /rethink passes its Message too: callback.answer(text) is
\* Message.answer(text) and sends the text, the recommendations are
\* generated and stored, and callback.message, which a Message has not, is
\* an AttributeError, in the try block and again in the except block, where
\* nothing catches it
cmd_rethink(u) ==
    /\ UNCHANGED <<call, eval, tasks>>
    /\ IF fsm[u] # "showing_recommendations"
       THEN /\ last' = Event(u, "cmd_rethink", None, <<"no_active_recommendations">>,
                             <<>>, FALSE)
            /\ UNCHANGED <<sessions, fsm, asked>>
       ELSE LET ss == get_session(sessions, u)
                task_description == ss[u].task_description
                answers == ss[u].answers
            IN  IF ~Truthy(task_description) \/ ~DictTruthy(answers)
                THEN /\ sessions' = ss
                     /\ last' = Event(u, "cmd_rethink", None, <<"rethinking">>,
                                      <<>>, TRUE)
                     /\ UNCHANGED <<fsm, asked>>
                ELSE \E script \in Scripts(RecommendationResponses) :
                     LET g == generate_recommendations(task_description, answers,
                                                       script)
                     IN  /\ sessions' = IF g.raised THEN ss
                                        ELSE set_recommendations(ss, u, g.value)
                         /\ last' = Event(u, "cmd_rethink", None, <<"rethinking">>,
                                          <<g.call>>, TRUE)
                         /\ UNCHANGED <<fsm, asked>>

\* the round before forgotten on the way back
EditTaskClearing(u, ev) ==
    /\ UNCHANGED <<call, eval, tasks>>
    /\ fsm' = [fsm EXCEPT ![u] = "waiting_for_task_description"]
    /\ asked' = [asked EXCEPT ![u] = NoHistory]
    /\ last' = Event(u, ev, None, <<"enter_task_description">>, <<>>, FALSE)
    /\ sessions' = [get_session(sessions, u) EXCEPT
                        ![u].clarification_questions = <<>>, ![u].answers = <<>>]

EditTask(u, ev) ==
    /\ UNCHANGED <<call, eval, tasks>>
    /\ fsm' = [fsm EXCEPT ![u] = "waiting_for_task_description"]
    /\ asked' = [asked EXCEPT ![u] = NoHistory]
    /\ last' = Event(u, ev, None, <<"enter_task_description">>, <<>>, FALSE)
    /\ UNCHANGED sessions

cmd_edit(u) == EditTask(u, "cmd_edit")

process_edit_task_description(u) == EditTask(u, "cb_edit_task")

(***************************************************************************)
(* main.py: text messages, routed by the state of the user                 *)
(***************************************************************************)
process_task_description(u, text) ==
    /\ UNCHANGED <<call, eval, tasks>>
    /\ fsm[u] = "waiting_for_task_description"
    /\ IF ~Truthy(text) \/ Len(Strip(text)) < MinTaskLen
       THEN /\ last' = Event(u, "text", text, <<"too_short">>, <<>>, FALSE)
            /\ UNCHANGED <<sessions, fsm, asked>>
       ELSE \E script \in Scripts(QuestionResponses) :
            LET ss == update_task_description(sessions, u, text)
                g == generate_clarification_questions(text, script)
            IN  IF g.raised
                THEN /\ sessions' = ss
                     /\ last' = Event(u, "text", text, <<"task_received", "error">>,
                                      <<g.call>>, FALSE)
                     /\ UNCHANGED <<fsm, asked>>
                ELSE /\ sessions' = set_clarification_questions(ss, u, g.value)
                     /\ fsm' = [fsm EXCEPT ![u] = "waiting_for_clarification_answers"]
                     /\ asked' = [asked EXCEPT ![u] = NoHistory]
                     /\ last' = Event(u, "text", text, <<"task_received", "questions">>,
                                      <<g.call>>, FALSE)

\* set_state(showing_recommendations) moved out of the try block
ShowRecommendationsAdvancing(u, text, ss) ==
    \E script \in Scripts(RecommendationResponses) :
    LET g == generate_recommendations(ss[u].task_description, ss[u].answers, script)
    IN  /\ sessions' = IF g.raised THEN ss ELSE set_recommendations(ss, u, g.value)
        /\ fsm' = [fsm EXCEPT ![u] = "showing_recommendations"]
        /\ last' = Event(u, "text", text,
                         <<"answers_received",
                           IF g.raised THEN "error" ELSE "recommendations">>,
                         <<g.call>>, FALSE)
        /\ asked' = [asked EXCEPT ![u] = NoHistory]

\* the two identical try blocks of process_clarification_answer, entered with
\* the store ss
ShowRecommendations(u, text, ss) ==
    \E script \in Scripts(RecommendationResponses) :
    LET g == generate_recommendations(ss[u].task_description, ss[u].answers, script)
    IN  /\ sessions' = IF g.raised THEN ss ELSE set_recommendations(ss, u, g.value)
        /\ fsm' = IF g.raised THEN fsm
                  ELSE [fsm EXCEPT ![u] = "showing_recommendations"]
        /\ last' = Event(u, "text", text,
                         <<"answers_received",
                           IF g.raised THEN "error" ELSE "recommendations">>,
                         <<g.call>>, FALSE)
        /\ asked' = [asked EXCEPT ![u] = IF g.raised
                                          THEN [msgs |-> Append(@.msgs, text),
                                                triggered |-> TRUE]
                                          ELSE NoHistory]

process_clarification_answer(u, text) ==
    /\ UNCHANGED <<call, eval, tasks>>
    /\ fsm[u] = "waiting_for_clarification_answers"
    /\ Len(asked[u].msgs) < MaxAnswerMsgs
    /\ LET ss == get_session(sessions, u)
           questions == ss[u].clarification_questions
           answered_count == Len(ss[u].answers)
       IN  IF questions = <<>>
           THEN /\ sessions' = ss
                /\ last' = Event(u, "text", text, <<"questions_not_found">>, <<>>, FALSE)
                /\ asked' = [asked EXCEPT ![u].msgs = Append(@, text)]
                /\ UNCHANGED fsm
           ELSE IF answered_count >= Len(questions)
           THEN ShowRecommendations(u, text, ss)
           ELSE LET current_question == questions[answered_count + 1]
                    ss2 == add_answer(ss, u, current_question, text)
                IN  IF answered_count + 1 < Len(questions)
                    THEN /\ sessions' = ss2
                         /\ last' = Event(u, "text", text, <<"answer_accepted">>,
                                          <<>>, FALSE)
                         /\ asked' = [asked EXCEPT ![u].msgs = Append(@, text)]
                         /\ UNCHANGED fsm
                    ELSE ShowRecommendations(u, text, ss2)

\* the session looked up, and so created, before the reply
process_other_messages_creating(u, text) ==
    /\ UNCHANGED <<call, eval, tasks>>
    /\ fsm[u] \in {NoState, "showing_recommendations", "prompt_generated",
                   "waiting_for_recommendation_decision"}
    /\ sessions' = get_session(sessions, u)
    /\ last' = Event(u, "text", text, <<"unrecognized">>, <<>>, FALSE)
    /\ UNCHANGED <<fsm, asked>>

\* a state without a text handler falls through to the last handler
process_other_messages(u, text) ==
    /\ UNCHANGED <<call, eval, tasks>>
    /\ fsm[u] \in {NoState, "showing_recommendations", "prompt_generated",
                   "waiting_for_recommendation_decision"}
    /\ last' = Event(u, "text", text, <<"unrecognized">>, <<>>, FALSE)
    /\ UNCHANGED <<sessions, fsm, asked>>

(***************************************************************************)
(* The bot                                                                 *)
(***************************************************************************)
Init ==
    /\ sessions = <<>>
    /\ fsm = [u \in Users |-> NoState]
    /\ asked = [u \in Users |-> NoHistory]
    /\ last = [user |-> "", ev |-> "init", from |-> NoState, text |-> None,
               replies |-> <<>>, calls |-> <<>>, raised |-> FALSE]
    /\ call = NoCall
    /\ tasks = <<>>
    /\ eval = NoEval

Next ==
    \E u \in Users :
        \/ cmd_start(u)
        \/ cmd_restart(u)
        \/ process_restart_callback(u)
        \/ cmd_accept(u)
        \/ cmd_rethink(u)
        \/ cmd_edit(u)
        \/ process_edit_task_description(u)
        \/ process_accept_recommendations(u)
        \/ process_rethink_recommendations(u)
        \/ \E text \in TaskTexts : process_task_description(u, text)
        \/ \E text \in AnswerTexts : process_clarification_answer(u, text)
        \/ \E text \in AnswerTexts : process_other_messages(u, text)

Spec == Init /\ [][Next]_vars

(***************************************************************************)
(* main.py: the handlers that edit the document                            *)
(***************************************************************************)
\* the value of a decimal digit
DigitValue(c) ==
    CASE c = "0" -> 0 [] c = "1" -> 1 [] c = "2" -> 2 [] c = "3" -> 3
      [] c = "4" -> 4 [] c = "5" -> 5 [] c = "6" -> 6 [] c = "7" -> 7
      [] c = "8" -> 8 [] c = "9" -> 9

RECURSIVE DigitsValue(_, _)
DigitsValue(s, acc) ==
    IF s = <<>> THEN acc ELSE DigitsValue(Tail(s), acc * 10 + DigitValue(Head(s)))

\* int(s) for a text of an optional sign and decimal digits around which
\* white space is allowed; any other text is a ValueError
ParseInt(s) ==
    LET t == Strip(s)
        signed == t # <<>> /\ t[1] \in {"+", "-"}
        digits == IF signed THEN Tail(t) ELSE t
    IN  IF digits # <<>> /\ \A i \in 1..Len(digits) : IsDigit(digits[i])
        THEN [ok |-> TRUE,
              value |-> IF signed /\ t[1] = "-" THEN 0 - DigitsValue(digits, 0)
                        ELSE DigitsValue(digits, 0)]
        ELSE [ok |-> FALSE, value |-> 0]

\* the body shared by cmd_edit_section and process_edit_section_callback
EnterEditSection(u, ev) ==
    /\ UNCHANGED <<call, eval, tasks>>
    /\ LET ss == get_session(sessions, u)
           prompt == ss[u].current_prompt
       IN  /\ sessions' = ss
           /\ IF ~Truthy(prompt)
              THEN /\ last' = Event(u, ev, None, <<"no_prompt_to_edit">>, <<>>, FALSE)
                   /\ UNCHANGED <<fsm, asked>>
              ELSE IF get_section_list(prompt) = <<>>
              THEN /\ last' = Event(u, ev, None, <<"no_sections">>, <<>>, FALSE)
                   /\ UNCHANGED <<fsm, asked>>
              ELSE /\ last' = Event(u, ev, None, <<"choose_section">>, <<>>, FALSE)
                   /\ fsm' = [fsm EXCEPT ![u] = "editing_section"]
                   /\ asked' = [asked EXCEPT ![u] = NoHistory]

cmd_edit_section(u) == EnterEditSection(u, "cmd_edit_section")

process_edit_section_callback(u) == EnterEditSection(u, "cb_edit_section")

\* set_state(st) and the prompt for a text, whatever the session holds
EnterRequirement(u, ev, st, reply) ==
    /\ UNCHANGED <<call, eval, tasks>>
    /\ fsm' = [fsm EXCEPT ![u] = st]
    /\ asked' = [asked EXCEPT ![u] = NoHistory]
    /\ last' = Event(u, ev, None, <<reply>>, <<>>, FALSE)
    /\ UNCHANGED sessions

cmd_add_requirement(u) ==
    EnterRequirement(u, "cmd_add_requirement", "adding_requirement",
                     "enter_requirement")

process_add_requirement_callback(u) ==
    EnterRequirement(u, "cb_add_requirement", "adding_requirement",
                     "enter_requirement")

cmd_remove_requirement(u) ==
    EnterRequirement(u, "cmd_remove_requirement", "removing_requirement",
                     "enter_requirement_to_remove")

process_remove_requirement_callback(u) ==
    EnterRequirement(u, "cb_remove_requirement", "removing_requirement",
                     "enter_requirement_to_remove")

\* the reply and set_state(prompt_generated) of a text handler that finds
\* no document
NoPromptToEdit(u, text, ss) ==
    /\ sessions' = ss
    /\ fsm' = [fsm EXCEPT ![u] = "prompt_generated"]
    /\ last' = Event(u, "text", text, <<"no_prompt_to_edit">>, <<>>, FALSE)
    /\ UNCHANGED asked

\* message.text.strip() of a message without text: an AttributeError that
\* nothing catches
NoTextRaises(u, text, ss) ==
    /\ sessions' = ss
    /\ last' = Event(u, "text", text, <<>>, <<>>, TRUE)
    /\ UNCHANGED <<fsm, asked>>

\* the refusal sends the user back to prompt_generated
RejectedLeaving(u, text, ss, reply) ==
    /\ sessions' = ss
    /\ fsm' = [fsm EXCEPT ![u] = "prompt_generated"]
    /\ last' = Event(u, "text", text, <<reply>>, <<>>, FALSE)
    /\ UNCHANGED asked

\* a reply, and nothing else
Rejected(u, text, ss, reply) ==
    /\ sessions' = ss
    /\ last' = Event(u, "text", text, <<reply>>, <<>>, FALSE)
    /\ UNCHANGED <<fsm, asked>>

\* update_prompt, the reply and set_state(prompt_generated)
StoreEdited(u, text, ss, updated_prompt, reply) ==
    /\ sessions' = update_prompt(ss, u, updated_prompt)
    /\ fsm' = [fsm EXCEPT ![u] = "prompt_generated"]
    /\ last' = Event(u, "text", text, <<reply>>, <<>>, FALSE)
    /\ UNCHANGED asked

process_edit_section(u, text) ==
    /\ UNCHANGED <<call, eval, tasks>>
    /\ fsm[u] = "editing_section"
    /\ SessionView(sessions, u).edited_count < MaxEdits
    /\ LET ss == get_session(sessions, u)
           prompt == ss[u].current_prompt
       IN  IF ~Truthy(prompt) THEN NoPromptToEdit(u, text, ss)
           ELSE IF text = None THEN NoTextRaises(u, text, ss)
           ELSE IF Find(Strip(text), ":") = -1
           THEN Rejected(u, text, ss, "bad_format")
           ELSE LET colon == Find(Strip(text), ":")
                    section_num_str == Slice(Strip(text), 0, colon)
                    new_content == Slice(Strip(text), colon + 1, Len(Strip(text)))
                    parsed == ParseInt(section_num_str)
                    section_num == parsed.value - 1
                    sections == get_section_list(prompt)
                IN  IF ~parsed.ok THEN Rejected(u, text, ss, "bad_number")
                    ELSE IF section_num < 0 \/ section_num >= Len(sections)
                    THEN Rejected(u, text, ss, "bad_section_number")
                    ELSE StoreEdited(u, text, ss,
                                     update_section(prompt, sections[section_num + 1],
                                                    Strip(new_content)),
                                     "section_updated")

process_add_requirement(u, text) ==
    /\ UNCHANGED <<call, eval, tasks>>
    /\ fsm[u] = "adding_requirement"
    /\ SessionView(sessions, u).edited_count < MaxEdits
    /\ LET ss == get_session(sessions, u)
           prompt == ss[u].current_prompt
       IN  IF ~Truthy(prompt) THEN NoPromptToEdit(u, text, ss)
           ELSE IF text = None THEN NoTextRaises(u, text, ss)
           ELSE StoreEdited(u, text, ss,
                            add_requirement_to_prompt(prompt, Strip(text)),
                            "requirement_added")

process_remove_requirement(u, text) ==
    /\ UNCHANGED <<call, eval, tasks>>
    /\ fsm[u] = "removing_requirement"
    /\ SessionView(sessions, u).edited_count < MaxEdits
    /\ LET ss == get_session(sessions, u)
           prompt == ss[u].current_prompt
       IN  IF ~Truthy(prompt) THEN NoPromptToEdit(u, text, ss)
           ELSE IF text = None THEN NoTextRaises(u, text, ss)
           ELSE StoreEdited(u, text, ss,
                            remove_requirement_from_prompt(prompt, Strip(text)),
                            "requirement_removed")

(***************************************************************************)
(* The editing of a generated document: the bot from the moment the accept *)
(* button has stored a document                                            *)
(***************************************************************************)
\* "ab", a document without a heading
PlainDocument == <<"a", "b">>

\* "# GOAL A\na\n# GOAL\nb", the second heading is part of the first
NestedHeadings ==
    <<"#", " ", "G", "O", "A", "L", " ", "A", "\n", "a", "\n",
      "#", " ", "G", "O", "A", "L", "\n", "b">>

\* "# GOAL\na\n# REQUIREMENTS\n- x\n- y"
WithRequirements ==
    <<"#", " ", "G", "O", "A", "L", "\n", "a", "\n",
      "#", " ", "R", "E", "Q", "U", "I", "R", "E", "M", "E", "N", "T", "S", "\n",
      "-", " ", "x", "\n", "-", " ", "y">>

Documents == {PlainDocument, NestedHeadings, WithRequirements}

\* None is a message without text; "z", "x: z", ": z", "0: z", "1: z",
\* "2:w " and "3: z"
EditTexts ==
    {None, <<"z">>, <<"x", ":", " ", "z">>, <<":", " ", "z">>,
     <<"0", ":", " ", "z">>, <<"1", ":", " ", "z">>, <<"2", ":", "w", " ">>,
     <<"3", ":", " ", "z">>}

\* None, "q " and "x"
RequirementTexts == {None, <<"q", " ">>, <<"x">>}

\* the session of a user at the moment accept has stored the document
AcceptedSession(document) ==
    [DefaultSession EXCEPT
        !.task_description = TenCharTask,
        !.clarification_questions = <<<<"A", "?">>>>,
        !.answers = <<[k |-> <<"A", "?">>, v |-> <<"x">>]>>,
        !.recommendations = <<[k |-> "tech_stack", v |-> <<"p", "y">>]>>,
        !.current_prompt = document]

EditInit ==
    \E document \in Documents :
        /\ sessions = [u \in Users |-> AcceptedSession(document)]
        /\ fsm = [u \in Users |-> "prompt_generated"]
        /\ asked = [u \in Users |-> NoHistory]
        /\ last = [user |-> CHOOSE u \in Users : TRUE, ev |-> "cb_accept",
                   from |-> "showing_recommendations", text |-> None,
                   replies |-> <<"generating", "prompt_generated">>,
                   calls |-> <<Call("final",
                                    <<TenCharTask,
                                      <<[k |-> "tech_stack", v |-> <<"p", "y">>]>>>>,
                                    FALSE, document)>>,
                   raised |-> FALSE]
        /\ call = NoCall
        /\ tasks = <<>>
        /\ eval = NoEval

EditNext ==
    \E u \in Users :
        \/ cmd_edit_section(u)
        \/ process_edit_section_callback(u)
        \/ cmd_add_requirement(u)
        \/ process_add_requirement_callback(u)
        \/ cmd_remove_requirement(u)
        \/ process_remove_requirement_callback(u)
        \/ process_accept_recommendations(u)
        \/ cmd_restart(u)
        \/ \E text \in EditTexts : process_edit_section(u, text)
        \/ \E text \in RequirementTexts : process_add_requirement(u, text)
        \/ \E text \in RequirementTexts : process_remove_requirement(u, text)

EditSpec == EditInit /\ [][EditNext]_vars

(***************************************************************************)
(* The parsing part of generate_recommendations, applied to a response     *)
(***************************************************************************)
\* the characters of the generated responses
ResponseAlphabet == {"{", "}", "a", " "}

\* 201 characters without a brace, the last one different from the others
LongResponse == [i \in 1..(TechStackMax + 1) |-> IF i <= TechStackMax THEN "a" ELSE "b"]

\* 203 characters between braces that are not JSON
LongBadObject == <<"{">> \o LongResponse \o <<"}">>

\* the non-empty responses: every text of up to MaxResponseLen characters
\* of the alphabet, the two objects with a member, alone and inside a
\* sentence, and the long ones
NormResponses ==
    UNION {[1..n -> ResponseAlphabet] : n \in 1..MaxResponseLen}
        \cup {StackObjText, RisksObjText, <<"a", " ">> \o StackObjText \o <<".">>,
              LongResponse, LongBadObject}

NormInit ==
    /\ sessions = <<>>
    /\ fsm = [u \in Users |-> NoState]
    /\ asked = [u \in Users |-> NoHistory]
    /\ last = [user |-> "", ev |-> "init", from |-> NoState, text |-> None,
               replies |-> <<>>, calls |-> <<>>, raised |-> FALSE]
    /\ call = NoCall
    /\ tasks = <<>>
    /\ \E response \in NormResponses :
           eval = [fn |-> "none", response |-> response, out |-> None]

\* lines 131-160 of generate_recommendations run on the response
apply_normalize_recommendations ==
    /\ eval.fn = "none"
    /\ eval' = [eval EXCEPT !.fn = "normalize_recommendations",
                            !.out = normalize_recommendations(eval.response)]
    /\ UNCHANGED <<sessions, fsm, last, asked, call, tasks>>

NormNext == apply_normalize_recommendations

NormSpec == NormInit /\ [][NormNext]_vars

(***************************************************************************)
(* The parsing part of generate_clarification_questions, applied to a      *)
(* response                                                                *)
(***************************************************************************)
\* the characters of the generated question lists
QuestionAlphabet == {"1", "-", ".", "?", "a", " ", "\n"}

\* "1. a?\n2. b?"
NumberedQuestions ==
    <<"1", ".", " ", "a", "?", "\n", "2", ".", " ", "b", "?">>

\* "- a.b?"
DashedQuestion == <<"-", " ", "a", ".", "b", "?">>

\* the non-empty responses: every text of up to MaxResponseLen characters
\* of the alphabet, and two longer lists
ExtractResponses ==
    UNION {[1..n -> QuestionAlphabet] : n \in 1..MaxResponseLen}
        \cup {NumberedQuestions, DashedQuestion}

ExtractInit ==
    /\ sessions = <<>>
    /\ fsm = [u \in Users |-> NoState]
    /\ asked = [u \in Users |-> NoHistory]
    /\ last = [user |-> "", ev |-> "init", from |-> NoState, text |-> None,
               replies |-> <<>>, calls |-> <<>>, raised |-> FALSE]
    /\ call = NoCall
    /\ tasks = <<>>
    /\ \E response \in ExtractResponses :
           eval = [fn |-> "none", response |-> response, out |-> None]

\* lines 82-98 of generate_clarification_questions run on the response
apply_extract_questions ==
    /\ eval.fn = "none"
    /\ eval' = [eval EXCEPT !.fn = "extract_questions",
                            !.out = extract_questions(eval.response)]
    /\ UNCHANGED <<sessions, fsm, last, asked, call, tasks>>

ExtractNext == apply_extract_questions

ExtractSpec == ExtractInit /\ [][ExtractNext]_vars

(***************************************************************************)
(* The functions of utils.py applied to a document, one after the other    *)
(***************************************************************************)
\* "p\n# GOAL\na", a line stands before the first heading
WithPreamble == <<"p", "\n", "#", " ", "G", "O", "A", "L", "\n", "a">>

\* "# GOAL\na\n# GOAL\nb", the same heading twice
RepeatedHeading ==
    <<"#", " ", "G", "O", "A", "L", "\n", "a", "\n",
      "#", " ", "G", "O", "A", "L", "\n", "b">>

\* "# GOAL\na", one section
OneSection == <<"#", " ", "G", "O", "A", "L", "\n", "a">>

UtilsDocuments ==
    {PlainDocument, NestedHeadings, WithRequirements, WithPreamble,
     RepeatedHeading, OneSection}

\* "goal", "output" and "z": the name of a section of the documents, a
\* keyword that none of them has, and a name that is no keyword
SectionNames ==
    {<<"g", "o", "a", "l">>, <<"o", "u", "t", "p", "u", "t">>, <<"z">>}

\* "w" and "x\n# OUTPUT\ny", the second holds a heading
SectionBodies ==
    {<<"w">>, <<"x", "\n", "#", " ", "O", "U", "T", "P", "U", "T", "\n", "y">>}

\* "", "x" (part of a line of WithRequirements) and "q"
UtilsRequirements == {<<>>, <<"x">>, <<"q">>}

UtilsInit ==
    /\ sessions = <<>>
    /\ fsm = [u \in Users |-> NoState]
    /\ asked = [u \in Users |-> NoHistory]
    /\ last = [user |-> "", ev |-> "init", from |-> NoState, text |-> None,
               replies |-> <<>>, calls |-> <<>>, raised |-> FALSE]
    /\ call = NoCall
    /\ tasks = <<>>
    /\ \E prompt \in UtilsDocuments : eval = [prompt |-> prompt, steps |-> <<>>]

\* the document the next function is applied to
CurrentDocument ==
    IF eval.steps = <<>> THEN eval.prompt ELSE eval.steps[Len(eval.steps)].out

\* one more function may be applied to a document
MayApply ==
    /\ DOMAIN eval = {"prompt", "steps"}
    /\ Len(eval.steps) < MaxSteps
    /\ eval.steps # <<>> => eval.steps[Len(eval.steps)].fn # "parse_sections"

Applied(fn, args, out) ==
    /\ eval' = [eval EXCEPT !.steps = Append(@, [fn |-> fn, prompt |-> CurrentDocument,
                                                 args |-> args, out |-> out])]
    /\ UNCHANGED <<sessions, fsm, last, asked, call, tasks>>

apply_parse_sections ==
    /\ MayApply
    /\ Applied("parse_sections", <<>>, parse_sections(CurrentDocument))

apply_update_section(section_name, new_content) ==
    /\ MayApply
    /\ Applied("update_section", <<section_name, new_content>>,
               update_section(CurrentDocument, section_name, new_content))

apply_add_requirement_to_prompt(requirement) ==
    /\ MayApply
    /\ Applied("add_requirement_to_prompt", <<requirement>>,
               add_requirement_to_prompt(CurrentDocument, requirement))

apply_remove_requirement_from_prompt(requirement_text) ==
    /\ MayApply
    /\ Applied("remove_requirement_from_prompt", <<requirement_text>>,
               remove_requirement_from_prompt(CurrentDocument, requirement_text))

UtilsNext ==
    \/ apply_parse_sections
    \/ \E section_name \in SectionNames : \E new_content \in SectionBodies :
           apply_update_section(section_name, new_content)
    \/ \E requirement \in UtilsRequirements :
           apply_add_requirement_to_prompt(requirement)
    \/ \E requirement_text \in UtilsRequirements :
           apply_remove_requirement_from_prompt(requirement_text)

UtilsSpec == UtilsInit /\ [][UtilsNext]_vars

(***************************************************************************)
(* The handlers as coroutines. start_polling (main.py:595) runs the        *)
(* handler of every update as a task of its own, and the Dispatcher of     *)
(* main.py:44 is given no events_isolation: a handler runs from an await   *)
(* that suspends it to the next, and between two of them the handlers of   *)
(* later updates run. The awaits followed are the completion call,         *)
(* together with the reply sent before it, and the reply sent after it     *)
(* where the handler goes on to write; the storage of the dialogue state   *)
(* is in memory and suspends nobody.                                       *)
(***************************************************************************)
\* a suspended handler: pc is "call" in the completion call and "reply" in
\* the reply that follows it, args what the call was given
Task(handler, u, pc, args) ==
    [handler |-> handler, user |-> u, pc |-> pc, args |-> args]

Without(seq, i) == SubSeq(seq, 1, i - 1) \o SubSeq(seq, i + 1, Len(seq))

\* the handler of a task resumed at pc
Resumes(i, handler, pc) ==
    /\ i \in DOMAIN tasks
    /\ tasks[i].handler = handler
    /\ tasks[i].pc = pc

\* "1. A?" and "- A?\n- B?\n"
AsyncQuestionResponses == {OneQuestion, TwoQuestions}

AsyncRecommendationResponses == {PlainRecommendation}

AsyncFinalResponses == {GoalDocument}

AsyncTaskTexts == {PaddedShortTask, TenCharTask}

AsyncAnswerTexts == {<<"x">>}

\* the call fails for good, or is answered at once
AsyncScripts(responses) ==
    {[fails |-> MAX_RETRIES, final |-> ServiceError]}
        \cup {[fails |-> 0, final |-> Ok(c)] : c \in responses}

\* process_task_description up to its completion call
process_task_description_begin(u, text) ==
    /\ fsm[u] = "waiting_for_task_description"
    /\ UNCHANGED <<call, eval, fsm, asked>>
    /\ IF ~Truthy(text) \/ Len(Strip(text)) < MinTaskLen
       THEN /\ last' = Event(u, "text", text, <<"too_short">>, <<>>, FALSE)
            /\ UNCHANGED <<sessions, tasks>>
       ELSE /\ Len(tasks) < MaxTasks
            /\ sessions' = update_task_description(sessions, u, text)
            /\ tasks' = Append(tasks, Task("process_task_description", u, "call",
                                           <<text>>))
            /\ last' = Event(u, "text", text, <<"task_received">>, <<>>, FALSE)

\* from the return of generate_clarification_questions to the reply that
\* shows the questions
process_task_description_returned(i) ==
    /\ Resumes(i, "process_task_description", "call")
    /\ UNCHANGED <<call, eval, fsm, asked>>
    /\ \E script \in AsyncScripts(AsyncQuestionResponses) :
       LET u == tasks[i].user
           g == generate_clarification_questions(tasks[i].args[1], script)
       IN  IF g.raised
           THEN /\ tasks' = Without(tasks, i)
                /\ last' = Event(u, "call_returned", None, <<"error">>, <<g.call>>,
                                 FALSE)
                /\ UNCHANGED sessions
           ELSE /\ sessions' = set_clarification_questions(sessions, u, g.value)
                /\ tasks' = [tasks EXCEPT ![i].pc = "reply"]
                /\ last' = Event(u, "call_returned", None, <<"questions">>,
                                 <<g.call>>, FALSE)

\* set_state(waiting_for_clarification_answers), main.py:397
process_task_description_replied(i) ==
    /\ Resumes(i, "process_task_description", "reply")
    /\ UNCHANGED <<call, eval, sessions, asked>>
    /\ fsm' = [fsm EXCEPT ![tasks[i].user] = "waiting_for_clarification_answers"]
    /\ tasks' = Without(tasks, i)
    /\ last' = Event(tasks[i].user, "reply_sent", None, <<>>, <<>>, FALSE)

\* the two identical try blocks of process_clarification_answer up to their
\* completion call, entered with the store ss
AwaitRecommendations(u, text, ss) ==
    /\ Len(tasks) < MaxTasks
    /\ sessions' = ss
    /\ tasks' = Append(tasks, Task("process_clarification_answer", u, "call",
                                   <<ss[u].task_description, ss[u].answers>>))
    /\ last' = Event(u, "text", text, <<"answers_received">>, <<>>, FALSE)

process_clarification_answer_begin(u, text) ==
    /\ fsm[u] = "waiting_for_clarification_answers"
    /\ UNCHANGED <<call, eval, fsm, asked>>
    /\ LET ss == get_session(sessions, u)
           questions == ss[u].clarification_questions
           answered_count == Len(ss[u].answers)
       IN  IF questions = <<>>
           THEN /\ sessions' = ss
                /\ last' = Event(u, "text", text, <<"questions_not_found">>, <<>>, FALSE)
                /\ UNCHANGED tasks
           ELSE IF answered_count >= Len(questions)
           THEN AwaitRecommendations(u, text, ss)
           ELSE LET current_question == questions[answered_count + 1]
                    ss2 == add_answer(ss, u, current_question, text)
                IN  IF answered_count + 1 < Len(questions)
                    THEN /\ sessions' = ss2
                         /\ last' = Event(u, "text", text, <<"answer_accepted">>,
                                          <<>>, FALSE)
                         /\ UNCHANGED tasks
                    ELSE AwaitRecommendations(u, text, ss2)

\* from the return of generate_recommendations to the reply that shows them
process_clarification_answer_returned(i) ==
    /\ Resumes(i, "process_clarification_answer", "call")
    /\ UNCHANGED <<call, eval, fsm, asked>>
    /\ \E script \in AsyncScripts(AsyncRecommendationResponses) :
       LET u == tasks[i].user
           g == generate_recommendations(tasks[i].args[1], tasks[i].args[2], script)
       IN  IF g.raised
           THEN /\ tasks' = Without(tasks, i)
                /\ last' = Event(u, "call_returned", None, <<"error">>, <<g.call>>,
                                 FALSE)
                /\ UNCHANGED sessions
           ELSE /\ sessions' = set_recommendations(sessions, u, g.value)
                /\ tasks' = [tasks EXCEPT ![i].pc = "reply"]
                /\ last' = Event(u, "call_returned", None, <<"recommendations">>,
                                 <<g.call>>, FALSE)

\* set_state(showing_recommendations), main.py:434 and 474
process_clarification_answer_replied(i) ==
    /\ Resumes(i, "process_clarification_answer", "reply")
    /\ UNCHANGED <<call, eval, sessions, asked>>
    /\ fsm' = [fsm EXCEPT ![tasks[i].user] = "showing_recommendations"]
    /\ tasks' = Without(tasks, i)
    /\ last' = Event(tasks[i].user, "reply_sent", None, <<>>, <<>>, FALSE)

\* process_accept_recommendations up to its completion call
process_accept_recommendations_begin(u) ==
    /\ UNCHANGED <<call, eval, fsm, asked>>
    /\ LET ss == get_session(sessions, u)
           task_description == ss[u].task_description
           recommendations == ss[u].recommendations
       IN  IF ~Truthy(task_description) \/ ~DictTruthy(recommendations)
           THEN /\ sessions' = ss
                /\ last' = Event(u, "cb_accept", None, <<"insufficient_data_prompt">>,
                                 <<>>, FALSE)
                /\ UNCHANGED tasks
           ELSE /\ Len(tasks) < MaxTasks
                /\ sessions' = ss
                /\ tasks' = Append(tasks, Task("process_accept_recommendations", u,
                                               "call",
                                               <<task_description, recommendations>>))
                /\ last' = Event(u, "cb_accept", None, <<"generating">>, <<>>, FALSE)

\* set_current_prompt and set_state(prompt_generated), main.py:230-232
process_accept_recommendations_returned(i) ==
    /\ Resumes(i, "process_accept_recommendations", "call")
    /\ UNCHANGED <<call, eval, asked>>
    /\ tasks' = Without(tasks, i)
    /\ \E script \in AsyncScripts(AsyncFinalResponses) :
       LET u == tasks[i].user
           g == generate_final_prompt(tasks[i].args[1], tasks[i].args[2], script)
       IN  IF g.raised
           THEN /\ last' = Event(u, "call_returned", None, <<"error">>, <<g.call>>,
                                 FALSE)
                /\ UNCHANGED <<sessions, fsm>>
           ELSE /\ sessions' = set_current_prompt(sessions, u, g.value)
                /\ fsm' = [fsm EXCEPT ![u] = "prompt_generated"]
                /\ last' = Event(u, "call_returned", None, <<"prompt_generated">>,
                                 <<g.call>>, FALSE)

\* process_rethink_recommendations up to its completion call
process_rethink_recommendations_begin(u) ==
    /\ UNCHANGED <<call, eval, fsm, asked>>
    /\ LET ss == get_session(sessions, u)
           task_description == ss[u].task_description
           answers == ss[u].answers
       IN  IF ~Truthy(task_description) \/ ~DictTruthy(answers)
           THEN /\ sessions' = ss
                /\ last' = Event(u, "cb_rethink", None, <<"insufficient_data_rethink">>,
                                 <<>>, FALSE)
                /\ UNCHANGED tasks
           ELSE /\ Len(tasks) < MaxTasks
                /\ sessions' = ss
                /\ tasks' = Append(tasks, Task("process_rethink_recommendations", u,
                                               "call", <<task_description, answers>>))
                /\ last' = Event(u, "cb_rethink", None, <<>>, <<>>, FALSE)

\* set_recommendations, main.py:258
process_rethink_recommendations_returned(i) ==
    /\ Resumes(i, "process_rethink_recommendations", "call")
    /\ UNCHANGED <<call, eval, fsm, asked>>
    /\ tasks' = Without(tasks, i)
    /\ \E script \in AsyncScripts(AsyncRecommendationResponses) :
       LET u == tasks[i].user
           g == generate_recommendations(tasks[i].args[1], tasks[i].args[2], script)
       IN  /\ sessions' = IF g.raised THEN sessions
                          ELSE set_recommendations(sessions, u, g.value)
           /\ last' = Event(u, "call_returned", None,
                            <<IF g.raised THEN "error" ELSE "recommendations">>,
                            <<g.call>>, FALSE)

AsyncInit == Init

AsyncNext ==
    \/ \E u \in Users :
        \/ cmd_start(u)
        \/ cmd_restart(u)
        \/ process_restart_callback(u)
        \/ cmd_edit(u)
        \/ process_edit_task_description(u)
        \/ \E text \in AsyncTaskTexts : process_task_description_begin(u, text)
        \/ \E text \in AsyncAnswerTexts : process_clarification_answer_begin(u, text)
        \/ process_accept_recommendations_begin(u)
        \/ process_rethink_recommendations_begin(u)
    \/ \E i \in 1..MaxTasks :
        \/ process_task_description_returned(i)
        \/ process_task_description_replied(i)
        \/ process_clarification_answer_returned(i)
        \/ process_clarification_answer_replied(i)
        \/ process_accept_recommendations_returned(i)
        \/ process_rethink_recommendations_returned(i)

AsyncSpec == AsyncInit /\ [][AsyncNext]_vars

(***************************************************************************)
(* Two users of the bot: the handlers of both run as tasks of the same     *)
(* event loop, on the one SessionManager of session_manager.py:81 and the  *)
(* one MemoryStorage of main.py:43                                         *)
(***************************************************************************)
TwoUsers == {"u1", "u2"}

PairInit ==
    /\ sessions = <<>>
    /\ fsm = [u \in TwoUsers |-> NoState]
    /\ asked = [u \in TwoUsers |-> NoHistory]
    /\ last = [user |-> "", ev |-> "init", from |-> NoState, text |-> None,
               replies |-> <<>>, calls |-> <<>>, raised |-> FALSE]
    /\ call = NoCall
    /\ tasks = <<>>
    /\ eval = NoEval

\* no handler of u is suspended
Idle(u) == \A i \in DOMAIN tasks : tasks[i].user # u

\* every user waits for the bot's answer before the next message; a restart
\* is sent at any time
PairNext ==
    \/ \E u \in TwoUsers :
        \/ cmd_restart(u)
        \/ Idle(u) /\ process_task_description_begin(u, TenCharTask)
        \/ \E text \in AsyncAnswerTexts :
               Idle(u) /\ process_clarification_answer_begin(u, text)
        \/ Idle(u) /\ process_accept_recommendations_begin(u)
    \/ \E i \in 1..MaxTasks :
        \/ process_task_description_returned(i)
        \/ process_task_description_replied(i)
        \/ process_clarification_answer_returned(i)
        \/ process_clarification_answer_replied(i)
        \/ process_accept_recommendations_returned(i)

PairSpec == PairInit /\ [][PairNext]_vars

(***************************************************************************)
(* _call_with_retry, request by request                                    *)
(***************************************************************************)
\* the service fails the first `fails` requests of a call of max_retries
\* attempts and answers the next one; what follows a last failure is not
\* read
CallScripts(max_retries) ==
    {[fails |-> max_retries, final |-> ServiceError]}
        \cup [fails : 0..(max_retries - 1),
              final : {Unexpected, Ok(None), Ok(<<"r">>)}]

RetryInit == Init

RetryNext ==
    \/ \E max_retries \in 0..MaxAttempts :
           \E script \in CallScripts(max_retries) : call_enter(max_retries, script)
    \/ call_request
    \/ call_sleep

RetrySpec == RetryInit /\ [][RetryNext]_vars

\* the event loop resumes the coroutine after every request (which ends by
\* LLM_TIMEOUT at the latest) and after every sleep
RetryLiveSpec == RetrySpec /\ WF_vars(call_request) /\ WF_vars(call_sleep)

(***************************************************************************)
(* Vocabulary of the properties                                            *)
(***************************************************************************)
\* the step handles an event `ev` of user u
Handles(u, evs) == last'.user = u /\ last'.ev \in evs

\* the number of characters of t from its first to its last character that
\* is not white space; 0 for an absent text
StrippedLength(t) ==
    LET solid == {i \in 1..Len(t) : t[i] \notin {" ", "\n", "\t"}}
    IN  IF t = None \/ solid = {} THEN 0
        ELSE (CHOOSE i \in solid : \A j \in solid : j <= i)
             - (CHOOSE i \in solid : \A j \in solid : j >= i) + 1

\* the one generation the event invoked is of this kind
Invoked(ev, kind) == Len(ev.calls) = 1 /\ ev.calls[1].kind = kind

(***************************************************************************)
(* C1. In waiting_for_clarification_answers every text message is recorded *)
(* as the answer to the next unanswered question, in question order: with  *)
(* questions q1..qN stored, after the k-th message (k <= N) answers maps   *)
(* q1..qk to the texts of the 1st..k-th message.                           *)
(***************************************************************************)
C1_AnswersInQuestionOrder ==
    \A u \in Users :
        (fsm[u] = "waiting_for_clarification_answers" /\ u \in DOMAIN sessions) =>
            LET questions == sessions[u].clarification_questions
                answers == sessions[u].answers
                k == Len(asked[u].msgs)
            IN  k <= Len(questions) =>
                    \A i \in 1..k :
                        /\ DictHas(answers, questions[i])
                        /\ DictGet(answers, questions[i]) = asked[u].msgs[i]

(***************************************************************************)
(* C2. Answer collection completes: once a user that is asked N >= 1       *)
(* questions has sent N text messages, the generation of recommendations   *)
(* has been invoked.                                                       *)
(***************************************************************************)
C2_AnswerCollectionCompletes ==
    \A u \in Users :
        (fsm[u] = "waiting_for_clarification_answers" /\ u \in DOMAIN sessions) =>
            LET questions == sessions[u].clarification_questions
            IN  (Len(questions) >= 1 /\ Len(asked[u].msgs) >= Len(questions)) =>
                    asked[u].triggered

(***************************************************************************)
(* C3. In waiting_for_task_description a message whose text is absent or   *)
(* shorter than 10 characters once stripped leaves the state where it is,  *)
(* is answered by the validation reply alone, invokes no generation and    *)
(* leaves task_description and clarification_questions as they were.       *)
(***************************************************************************)
C3_ShortTaskRejected ==
    [][\A u \in Users :
        (/\ fsm[u] = "waiting_for_task_description"
         /\ Handles(u, {"text"})
         /\ StrippedLength(last'.text) < 10) =>
            /\ fsm'[u] = "waiting_for_task_description"
            /\ last'.replies = <<"too_short">>
            /\ last'.calls = <<>>
            /\ SessionView(sessions', u).task_description
                   = SessionView(sessions, u).task_description
            /\ SessionView(sessions', u).clarification_questions
                   = SessionView(sessions, u).clarification_questions]_vars

\* a padded 9-character text was rejected while an earlier task and its
\* questions were stored
C3_Witness ==
    \E u \in Users :
        /\ last.user = u /\ last.ev = "text"
        /\ last.from = "waiting_for_task_description"
        /\ last.text = PaddedShortTask
        /\ u \in DOMAIN sessions
        /\ sessions[u].task_description = TenCharTask
        /\ sessions[u].clarification_questions # <<>>

(***************************************************************************)
(* C4. In waiting_for_task_description a text of stripped length >= 10 is  *)
(* stored as task_description and the questions are generated from it;     *)
(* when the generation succeeds its questions are stored and the state     *)
(* becomes waiting_for_clarification_answers.  No other step enters        *)
(* waiting_for_clarification_answers.                                      *)
(***************************************************************************)
C4_TaskAccepted ==
    [][\A u \in Users :
        /\ (/\ fsm[u] = "waiting_for_task_description"
            /\ Handles(u, {"text"})
            /\ StrippedLength(last'.text) >= 10) =>
               /\ SessionView(sessions', u).task_description = last'.text
               /\ Invoked(last', "questions")
               /\ last'.calls[1].args = <<last'.text>>
               /\ ~last'.calls[1].raised =>
                    /\ sessions'[u].clarification_questions = last'.calls[1].value
                    /\ fsm'[u] = "waiting_for_clarification_answers"
        /\ (/\ fsm[u] # "waiting_for_clarification_answers"
            /\ fsm'[u] = "waiting_for_clarification_answers") =>
               /\ fsm[u] = "waiting_for_task_description"
               /\ Handles(u, {"text"})
               /\ StrippedLength(last'.text) >= 10
               /\ Invoked(last', "questions")
               /\ ~last'.calls[1].raised]_vars

\* the padded task was accepted over an earlier one and two questions stored
C4_Witness ==
    \E u \in Users :
        /\ last.user = u /\ last.ev = "text"
        /\ last.from = "waiting_for_task_description"
        /\ last.text = PaddedTask
        /\ fsm[u] = "waiting_for_clarification_answers"
        /\ sessions[u].task_description = PaddedTask
        /\ sessions[u].clarification_questions = <<<<"A", "?">>, <<"B", "?">>>>
        /\ sessions[u].answers # <<>>

(***************************************************************************)
(* C5. When the generation of questions, of recommendations or of the      *)
(* final document raises, the handler catches it and sends the failure     *)
(* notice, the user stays in the state the event found, and the same event *)
(* sent again invokes the generation again.                                *)
(***************************************************************************)
\* the event invoked a generation, which raised
GenerationFailed(ev) == Len(ev.calls) = 1 /\ ev.calls[1].raised

\* in the present state, the event ev sent once more invokes its generation
RetryInvokes(ev) ==
    LET u == ev.user
        session == SessionView(sessions, u)
    IN  CASE ev.ev = "text" /\ ev.calls[1].kind = "questions" ->
                /\ fsm[u] = "waiting_for_task_description"
                /\ StrippedLength(ev.text) >= 10
          [] ev.ev = "text" /\ ev.calls[1].kind = "recommendations" ->
                /\ fsm[u] = "waiting_for_clarification_answers"
                /\ session.clarification_questions # <<>>
                /\ Len(session.answers) + 1 >= Len(session.clarification_questions)
          [] ev.ev = "cb_accept" ->
                session.task_description # <<>> /\ session.recommendations # <<>>
          [] ev.ev = "cb_rethink" ->
                session.task_description # <<>> /\ session.answers # <<>>
          [] OTHER -> FALSE

C5_FailureKeepsState ==
    GenerationFailed(last) =>
        /\ ~last.raised
        /\ last.replies[Len(last.replies)] = "error"
        /\ fsm[last.user] = last.from
        /\ RetryInvokes(last)

\* the generation failed on the answer to the second of two questions
C5_Witness ==
    /\ GenerationFailed(last)
    /\ last.ev = "text"
    /\ last.from = "waiting_for_clarification_answers"
    /\ Len(sessions[last.user].answers) = 2

(***************************************************************************)
(* C6. The restart button, /restart and /start, in whatever state, remove  *)
(* the session of the user and set the state to                            *)
(* waiting_for_task_description; the next get_session for the user returns *)
(* a fresh default session.                                                *)
(***************************************************************************)
C6_RestartClearsSession ==
    last.ev \in {"cmd_start", "cmd_restart", "cb_restart"} =>
        /\ last.user \notin DOMAIN sessions
        /\ fsm[last.user] = "waiting_for_task_description"
        /\ get_session(sessions, last.user)[last.user]
               = [task_description |-> <<>>, clarification_questions |-> <<>>,
                  answers |-> <<>>, recommendations |-> <<>>,
                  current_prompt |-> <<>>, edited_count |-> 0]

\* the button restarted a user whose document had been generated
C6_Witness ==
    /\ last.ev = "cb_restart"
    /\ last.from = "prompt_generated"
    /\ fsm[last.user] = "waiting_for_task_description"

C9_RethinkRegenerates ==
    [][\A u \in Users :
        (fsm[u] = "showing_recommendations" /\ Handles(u, {"cb_rethink"})) =>
            /\ Invoked(last', "recommendations")
            /\ last'.calls[1].args = <<sessions[u].task_description,
                                       sessions[u].answers>>
            /\ sessions'[u].recommendations
                   = IF last'.calls[1].raised THEN sessions[u].recommendations
                     ELSE last'.calls[1].value
            /\ fsm'[u] = "showing_recommendations"]_vars

\* rethink stored the recommendations parsed from the JSON answer
C9_Witness ==
    /\ last.ev = "cb_rethink"
    /\ last.from = "showing_recommendations"
    /\ Invoked(last, "recommendations")
    /\ ~last.calls[1].raised
    /\ sessions[last.user].recommendations
           = <<[k |-> "tech_stack", v |-> <<"p", "y">>]>>

(***************************************************************************)
(* C10. The edit_task button and /edit set the state to                    *)
(* waiting_for_task_description and leave the session store as it is: the  *)
(* questions and the answers of the round before are kept.                 *)
(***************************************************************************)
C10_EditTaskKeepsSession ==
    [][\A u \in Users :
        Handles(u, {"cb_edit_task", "cmd_edit"}) =>
            /\ fsm'[u] = "waiting_for_task_description"
            /\ sessions' = sessions]_vars

\* the button was pressed with questions and answers stored, and they are
\* still there
C10_Witness ==
    /\ last.ev = "cb_edit_task"
    /\ last.from = "showing_recommendations"
    /\ fsm[last.user] = "waiting_for_task_description"
    /\ sessions[last.user].clarification_questions # <<>>
    /\ Len(sessions[last.user].answers) = 2

(***************************************************************************)
(* C11. In editing_section a text that has no colon, whose part before the *)
(* first colon is not an integer, or whose 1-based index is outside        *)
(* 1..len(get_section_list(current_prompt)) is answered by a validation    *)
(* error, and the state, the document and edited_count stay as they were.  *)
(***************************************************************************)
\* the part of a text before its first colon
IndexPart(t) ==
    LET colons == {i \in 1..Len(t) : t[i] = ":"}
    IN  SubSeq(t, 1, (CHOOSE i \in colons : \A j \in colons : i <= j) - 1)

\* the text is no valid `index: newText` for the document
InvalidEdit(text, prompt) ==
    \/ \A i \in 1..Len(text) : text[i] # ":"
    \/ ~ParseInt(IndexPart(text)).ok
    \/ ParseInt(IndexPart(text)).value \notin 1..Len(get_section_list(prompt))

C11_InvalidEditRejected ==
    [][\A u \in Users :
        (/\ fsm[u] = "editing_section"
         /\ Handles(u, {"text"})
         /\ last'.text # None
         /\ InvalidEdit(last'.text, SessionView(sessions, u).current_prompt)) =>
            /\ last'.replies \in {<<"bad_format">>, <<"bad_number">>,
                                  <<"bad_section_number">>}
            /\ fsm'[u] = "editing_section"
            /\ SessionView(sessions', u).current_prompt
                   = SessionView(sessions, u).current_prompt
            /\ SessionView(sessions', u).edited_count
                   = SessionView(sessions, u).edited_count]_vars

\* "3: z" was refused for a document of two sections that had been edited
\* once before
C11_Witness ==
    /\ last.ev = "text"
    /\ last.from = "editing_section"
    /\ last.text = <<"3", ":", " ", "z">>
    /\ last.replies = <<"bad_section_number">>
    /\ fsm[last.user] = "editing_section"
    /\ Len(get_section_list(sessions[last.user].current_prompt)) = 2
    /\ sessions[last.user].edited_count = 1

(***************************************************************************)
(* C12. In editing_section a valid text `i: newText` replaces the body of  *)
(* the i-th section of the section list with newText, keeps the heading    *)
(* and the body of every other section, and returns the state to           *)
(* prompt_generated.                                                       *)
(***************************************************************************)
C12_EditReplacesIthSection ==
    [][\A u \in Users :
        (/\ fsm[u] = "editing_section"
         /\ Handles(u, {"text"})
         /\ last'.text # None
         /\ ~InvalidEdit(last'.text, SessionView(sessions, u).current_prompt)) =>
            LET before == parse_sections(sessions[u].current_prompt)
                after == parse_sections(sessions'[u].current_prompt)
                i == ParseInt(IndexPart(last'.text)).value
                newText == Strip(SubSeq(last'.text, Len(IndexPart(last'.text)) + 2,
                                        Len(last'.text)))
            IN  /\ fsm'[u] = "prompt_generated"
                /\ Len(after) = Len(before)
                /\ \A j \in 1..Len(before) :
                       /\ after[j].k = before[j].k
                       /\ after[j].v = IF j = i THEN newText ELSE before[j].v]_vars

(***************************************************************************)
(* C13. In adding_requirement (removing_requirement) any text message is   *)
(* applied to the document of the session as the requirement to add (the   *)
(* text to remove), and afterwards the state is prompt_generated.          *)
(***************************************************************************)
C13_RequirementApplied ==
    [][\A u \in Users :
        /\ (/\ fsm[u] = "adding_requirement"
            /\ Handles(u, {"text"})
            /\ last'.text # None) =>
               /\ SessionView(sessions', u).current_prompt
                      = add_requirement_to_prompt(
                            SessionView(sessions, u).current_prompt,
                            Strip(last'.text))
               /\ fsm'[u] = "prompt_generated"
        /\ (/\ fsm[u] = "removing_requirement"
            /\ Handles(u, {"text"})
            /\ last'.text # None) =>
               /\ SessionView(sessions', u).current_prompt
                      = remove_requirement_from_prompt(
                            SessionView(sessions, u).current_prompt,
                            Strip(last'.text))
               /\ fsm'[u] = "prompt_generated"]_vars

(***************************************************************************)
(* C14. edited_count is incremented on every assignment of current_prompt  *)
(* (by accept, edit section, add requirement or remove requirement): a     *)
(* fresh session has 0, every step that assigns the document adds one,     *)
(* and no other step changes it while the session lives.                   *)
(***************************************************************************)
\* the step ran update_prompt for u
Edits(u) ==
    /\ Handles(u, {"text"})
    /\ last'.replies \in {<<"section_updated">>, <<"requirement_added">>,
                          <<"requirement_removed">>}

\* the step ran set_current_prompt for u
Accepts(u) ==
    /\ Handles(u, {"cb_accept"})
    /\ Invoked(last', "final")
    /\ ~last'.calls[1].raised

\* the step removed the session of u
Clears(u) == Handles(u, {"cmd_start", "cmd_restart", "cb_restart"})

C14_EditedCountCountsAssignments ==
    [][\A u \in Users :
        SessionView(sessions', u).edited_count
            = IF Clears(u) THEN 0
              ELSE IF Edits(u) \/ Accepts(u)
              THEN SessionView(sessions, u).edited_count + 1
              ELSE SessionView(sessions, u).edited_count]_vars

\* C14 as amended: edited_count counts the assignments of the document by
\* edit section, add requirement and remove requirement; the assignment by
\* accept leaves it as it is; no other step changes the document or the
\* count while the session lives
C14_EditedCountCountsEdits ==
    [][\A u \in Users :
        /\ SessionView(sessions', u).edited_count
               = IF Clears(u) THEN 0
                 ELSE IF Edits(u) THEN SessionView(sessions, u).edited_count + 1
                 ELSE SessionView(sessions, u).edited_count
        /\ SessionView(sessions', u).current_prompt
               # SessionView(sessions, u).current_prompt =>
               Edits(u) \/ Accepts(u) \/ Clears(u)]_vars

\* accept has replaced a document that had been edited once, and the count
\* is still one
C14_Witness ==
    /\ last.ev = "cb_accept"
    /\ last.from = "prompt_generated"
    /\ Invoked(last, "final")
    /\ ~last.calls[1].raised
    /\ sessions[last.user].current_prompt = last.calls[1].value
    /\ sessions[last.user].edited_count = 1

(***************************************************************************)
(* C15. A text message that arrives in a state without a text handler      *)
(* (showing_recommendations, prompt_generated, or no state) is answered by *)
(* the 'unrecognized' reply alone and changes neither the state nor the    *)
(* session store: no session is created or modified.                       *)
(***************************************************************************)
C15_FallbackChangesNothing ==
    [][\A u \in Users :
        (/\ fsm[u] \in {"showing_recommendations", "prompt_generated", NoState}
         /\ Handles(u, {"text"})) =>
            /\ last'.replies = <<"unrecognized">>
            /\ last'.calls = <<>>
            /\ fsm' = fsm
            /\ sessions' = sessions]_vars

\* a text of a user that has neither a state nor a session got the reply,
\* and the user still has no session
C15_Witness ==
    /\ last.ev = "text"
    /\ last.from = NoState
    /\ last.replies = <<"unrecognized">>
    /\ fsm[last.user] = NoState
    /\ last.user \notin DOMAIN sessions

(***************************************************************************)
(* C16. _call_with_retry with max_retries = m, when the first k < m        *)
(* requests fail with a service error and request k+1 is answered, sends   *)
(* exactly k+1 requests, sleeps exactly k times, for d, 2d, ...,           *)
(* 2^(k-1)*d with d = RETRY_DELAY, each sleep between two requests, and    *)
(* returns the content of the answer.                                      *)
(***************************************************************************)
\* requests and sleeps alternate in the log, beginning with a request, and
\* the j-th sleep lasts 2^(j-1) * RETRY_DELAY
AlternatingLog(log) ==
    \A i \in 1..Len(log) :
        log[i] = IF i % 2 = 1 THEN Requested
                 ELSE Slept(2 ^ ((i \div 2) - 1) * RETRY_DELAY)

C16_RetryReturnsAnswer ==
    (/\ call.pc \in {"returned", "raised"}
     /\ call.script.fails < call.max_retries
     /\ call.script.final.kind = "ok") =>
        /\ call.pc = "returned"
        /\ call.value = call.script.final.content
        /\ Len(call.log) = 2 * call.script.fails + 1
        /\ AlternatingLog(call.log)

\* two failures, then the answer "r" to the third of three attempts
C16_Witness ==
    /\ call.pc = "returned"
    /\ call.max_retries = 3
    /\ call.script.fails = 2
    /\ call.value = <<"r">>
    /\ Len(call.log) = 5

(***************************************************************************)
(* C17. _call_with_retry with max_retries = m >= 1, when every request     *)
(* fails with a service error, sends exactly m requests and sleeps m-1     *)
(* times, does not sleep after the last failure, ends, and ends by         *)
(* raising the error of the last attempt, not by returning a value.        *)
(***************************************************************************)
\* every request of the run under way fails with a service error
AllRequestsFail ==
    /\ call.pc # "idle"
    /\ call.max_retries >= 1
    /\ call.script.fails >= call.max_retries

C17_RetryExhaustedRaises ==
    /\ [](AllRequestsFail =>
            /\ call.pc # "returned"
            /\ Len(call.log) <= 2 * call.max_retries - 1
            /\ AlternatingLog(call.log)
            /\ call.pc = "raised" =>
                 /\ Len(call.log) = 2 * call.max_retries - 1
                 /\ call.error = [kind |-> "error",
                                  attempt |-> call.max_retries - 1])
    /\ ((AllRequestsFail /\ call.pc = "request") ~>
            (AllRequestsFail /\ call.pc = "raised"))

\* three failures of three attempts: three requests, two sleeps, raised
C17_Witness ==
    /\ call.pc = "raised"
    /\ call.max_retries = 3
    /\ call.script.fails = 3
    /\ Len(call.log) = 5
    /\ call.log[5] = Requested

(***************************************************************************)
(* C18. generate_final_prompt returns the stripped response or raises when *)
(* the response is empty: every document it returns, and that accept then  *)
(* stores as current_prompt, is non-empty, whatever text the service       *)
(* answers.                                                                *)
(***************************************************************************)
C18_FinalDocumentNonEmpty ==
    (/\ last.ev = "cb_accept"
     /\ Invoked(last, "final")
     /\ ~last.calls[1].raised) =>
        /\ last.calls[1].value # <<>>
        /\ sessions[last.user].current_prompt # <<>>

(***************************************************************************)
(* C19. For every non-empty response the parsing part of                   *)
(* generate_recommendations returns a record that holds all seven fields   *)
(* (tech_stack, architecture, key_features, scalability, compliance,       *)
(* risks, recommendation_summary), none of them null.                      *)
(***************************************************************************)
RecommendationFields ==
    {"tech_stack", "architecture", "key_features", "scalability", "compliance",
     "risks", "recommendation_summary"}

C19_RecordFullyPopulated ==
    eval.fn = "normalize_recommendations" =>
        \A field \in RecommendationFields :
            /\ DictHas(eval.out, field)
            /\ DictGet(eval.out, field) # None

(***************************************************************************)
(* C20. When the response holds no '{' followed by a '}', or the text from *)
(* its first '{' to its last '}' does not parse, the record returned is    *)
(* the fallback record: tech_stack the first 200 characters of the         *)
(* response (all of it when shorter), architecture, scalability and        *)
(* compliance the placeholder, key_features and risks empty, and           *)
(* recommendation_summary the response as it is.                           *)
(***************************************************************************)
\* the places of a character in a text
Places(s, c) == {i \in 1..Len(s) : s[i] = c}

\* a '{' stands before a '}'
HasBracePair(s) == \E i \in Places(s, "{") : \E j \in Places(s, "}") : i < j

\* the text from the first '{' to the last '}'
Braced(s) ==
    SubSeq(s, CHOOSE i \in Places(s, "{") : \A j \in Places(s, "{") : i <= j,
              CHOOSE i \in Places(s, "}") : \A j \in Places(s, "}") : i >= j)

FallbackRecord(response) ==
    <<[k |-> "tech_stack",
       v |-> SubSeq(response, 1, IF Len(response) < 200 THEN Len(response) ELSE 200)],
      [k |-> "architecture", v |-> NeedsClarification],
      [k |-> "key_features", v |-> <<>>],
      [k |-> "scalability", v |-> NeedsClarification],
      [k |-> "compliance", v |-> NeedsClarification],
      [k |-> "risks", v |-> <<>>],
      [k |-> "recommendation_summary", v |-> response]>>

C20_FallbackRecord ==
    (/\ eval.fn = "normalize_recommendations"
     /\ \/ ~HasBracePair(eval.response)
        \/ ~json_loads(Braced(eval.response)).ok) =>
        eval.out = FallbackRecord(eval.response)

(***************************************************************************)
(* C21. The questions returned for a response are, in line order, the      *)
(* lines that after trimming start with a digit or a dash and end with a   *)
(* question mark, one question per such line, each being its line without  *)
(* a leading numbering or marker (digits, '.', '-', blanks) and with all   *)
(* the rest of the line; when no line is such a line, the result is the    *)
(* trimmed response alone.                                                 *)
(***************************************************************************)
\* the trimmed lines of the trimmed response
TrimmedLines(response) ==
    LET lines == Split(Strip(response), "\n")
    IN  [i \in 1..Len(lines) |-> Strip(lines[i])]

QuestionLine(line) ==
    /\ line # <<>>
    /\ IsDigit(line[1]) \/ line[1] = "-"
    /\ line[Len(line)] = "?"

MarkerCharacters == {"0", "1", "2", "3", "4", "5", "6", "7", "8", "9", ".", "-", " "}

\* question is line without a leading run of marker characters
MarkerStripped(line, question) ==
    \E n \in 0..Len(line) :
        /\ \A i \in 1..n : line[i] \in MarkerCharacters
        /\ question = SubSeq(line, n + 1, Len(line))

C21_QuestionsAreTheQuestionLines ==
    eval.fn = "extract_questions" =>
        LET lines == SelectSeq(TrimmedLines(eval.response), QuestionLine)
        IN  IF lines = <<>>
            THEN eval.out = <<Strip(eval.response)>>
            ELSE /\ Len(eval.out) = Len(lines)
                 /\ \A i \in 1..Len(lines) : MarkerStripped(lines[i], eval.out[i])

(***************************************************************************)
(* C22. update_section applied a second time with the same section name    *)
(* and the same new content returns the document it returned the first     *)
(* time.                                                                   *)
(***************************************************************************)
\* steps i and i + 1 apply fn with the same arguments
AppliedTwice(fn, i) ==
    /\ i + 1 <= Len(eval.steps)
    /\ eval.steps[i].fn = fn
    /\ eval.steps[i + 1].fn = fn
    /\ eval.steps[i + 1].args = eval.steps[i].args

C22_UpdateSectionIdempotent ==
    DOMAIN eval = {"prompt", "steps"} =>
        \A i \in 1..Len(eval.steps) :
            AppliedTwice("update_section", i) =>
                eval.steps[i + 1].out = eval.steps[i].out

(***************************************************************************)
(* C23. After add_requirement_to_prompt and then                           *)
(* remove_requirement_from_prompt with the same text, the body of the      *)
(* requirements section is, white space apart, what it was before the      *)
(* requirement was added (empty when there was no such section).           *)
(***************************************************************************)
\* the body of the requirements section, empty when there is none
RequirementsBody(prompt) ==
    LET sections == parse_sections(prompt)
        key == requirements_section(sections)
    IN  IF key = None THEN <<>> ELSE DictGet(sections, key)

\* a text without its white space
Unspaced(s) == SelectSeq(s, LAMBDA ch : ch \notin {" ", "\n", "\t"})

C23_AddThenRemoveRestores ==
    DOMAIN eval = {"prompt", "steps"} =>
        \A i \in 1..Len(eval.steps) :
            (/\ i + 1 <= Len(eval.steps)
             /\ eval.steps[i].fn = "add_requirement_to_prompt"
             /\ eval.steps[i + 1].fn = "remove_requirement_from_prompt"
             /\ eval.steps[i + 1].args = eval.steps[i].args) =>
                Unspaced(RequirementsBody(eval.steps[i + 1].out))
                    = Unspaced(RequirementsBody(eval.steps[i].prompt))

(***************************************************************************)
(* C24. remove_requirement_from_prompt leaves every section other than the *)
(* requirements section with its heading and its body, and returns a       *)
(* document without a requirements section with the lines it had (blank    *)
(* lines apart).                                                           *)
(***************************************************************************)
\* the lines of a document that are not blank, trimmed
ContentLines(prompt) ==
    LET lines == Split(prompt, "\n")
    IN  SelectSeq([i \in 1..Len(lines) |-> Strip(lines[i])],
                  LAMBDA line : line # <<>>)

\* the sections other than the requirements section
OtherSections(prompt) ==
    LET sections == parse_sections(prompt)
    IN  SelectSeq(sections, LAMBDA section :
                      section.k # requirements_section(sections))

C24_RemoveChangesOnlyRequirements ==
    DOMAIN eval = {"prompt", "steps"} =>
        \A i \in 1..Len(eval.steps) :
            eval.steps[i].fn = "remove_requirement_from_prompt" =>
                /\ OtherSections(eval.steps[i].out)
                       = OtherSections(eval.steps[i].prompt)
                /\ requirements_section(parse_sections(eval.steps[i].prompt)) = None
                       => ContentLines(eval.steps[i].out)
                              = ContentLines(eval.steps[i].prompt)

(***************************************************************************)
(* C25. The headings and bodies of the parsed sections, joined in their    *)
(* order with blank lines between them, have the lines of the parsed       *)
(* document (blank lines apart): none lost, none twice, none added.        *)
(***************************************************************************)
C25_ParseKeepsLines ==
    DOMAIN eval = {"prompt", "steps"} =>
        \A i \in 1..Len(eval.steps) :
            eval.steps[i].fn = "parse_sections" =>
                ContentLines(assemble(eval.steps[i].out))
                    = ContentLines(eval.steps[i].prompt)

(***************************************************************************)
(* C26. While a completion call made for an event of a user is pending, no *)
(* other event of that user is handled: every step taken then is the       *)
(* return of a call or the end of a reply of a handler already running.    *)
(***************************************************************************)
\* a handler of u is suspended in its completion call
CallPending(u) == \E i \in DOMAIN tasks : tasks[i].user = u /\ tasks[i].pc = "call"

\* the step handles an event of u
HandlesEvent(u) ==
    /\ last' # last
    /\ last'.user = u
    /\ last'.ev \notin {"call_returned", "reply_sent"}

C26_NoReentrancy ==
    [][\A u \in Users : CallPending(u) => ~HandlesEvent(u)]_vars

(***************************************************************************)
(* C27. A user whose dialogue state is prompt_generated has a non-empty    *)
(* current_prompt.                                                         *)
(***************************************************************************)
C27_PromptGeneratedHasPrompt ==
    \A u \in Users :
        fsm[u] = "prompt_generated" => SessionView(sessions, u).current_prompt # <<>>

(***************************************************************************)
(* C28. An accept or a rethink (button or command) that arrives while the  *)
(* dialogue state is not showing_recommendations invokes no generation and *)
(* leaves the recommendations, the current_prompt and the dialogue state   *)
(* as they are.                                                            *)
(***************************************************************************)
\* the step handles an accept or a rethink of u
AcceptOrRethink(u) ==
    /\ last' # last
    /\ last'.user = u
    /\ last'.ev \in {"cb_accept", "cmd_accept", "cb_rethink", "cmd_rethink"}

C28_AcceptOnlyWhenShowing ==
    [][\A u \in Users :
           (AcceptOrRethink(u) /\ fsm[u] # "showing_recommendations") =>
               /\ last'.calls = <<>>
               /\ SessionView(sessions', u).recommendations
                      = SessionView(sessions, u).recommendations
               /\ SessionView(sessions', u).current_prompt
                      = SessionView(sessions, u).current_prompt
               /\ fsm'[u] = fsm[u]]_vars

(***************************************************************************)
(* C29. The answers an answer message passes to generate_recommendations   *)
(* are answers to the current questions: every key of them is one of the   *)
(* stored clarification_questions, also after the task description was     *)
(* edited and new questions were generated.                                *)
(***************************************************************************)
C29_AnswersOfCurrentQuestions ==
    (last.ev = "text" /\ last.from = "waiting_for_clarification_answers") =>
        \A i \in DOMAIN last.calls :
            last.calls[i].kind = "recommendations" =>
                \A j \in DOMAIN last.calls[i].args[2] :
                    \E q \in DOMAIN SessionView(sessions, last.user).clarification_questions :
                        SessionView(sessions, last.user).clarification_questions[q]
                            = last.calls[i].args[2][j].k

(***************************************************************************)
(* C30. A user whose dialogue state is waiting_for_clarification_answers   *)
(* has a non-empty list of clarification_questions, and no answer message  *)
(* is replied to with "questions not found".                               *)
(***************************************************************************)
C30_AwaitingHasQuestions ==
    /\ \A u \in Users :
           fsm[u] = "waiting_for_clarification_answers" =>
               SessionView(sessions, u).clarification_questions # <<>>
    /\ \A i \in DOMAIN last.replies : last.replies[i] # "questions_not_found"

(***************************************************************************)
(* C31. The handling of an event of a user (a text, a button, a restart,   *)
(* or the return of that user's pending generation call) leaves the        *)
(* session record and the dialogue state of every other user unchanged.    *)
(***************************************************************************)
\* the stored session of u, None when none is stored
Stored(ss, u) == IF u \in DOMAIN ss THEN ss[u] ELSE None

C31_SessionsIsolated ==
    [][\A b \in TwoUsers :
           last'.user # b =>
               /\ Stored(sessions', b) = Stored(sessions, b)
               /\ fsm'[b] = fsm[b]]_vars

\* a restart of u1 has just been handled, or a generation call of u1 has
\* just returned, while u2 has a session with questions and is answering
\* them, and a call of u2 is pending
C31_Witness ==
    /\ last.user = "u1"
    /\ last.ev \in {"cmd_restart", "call_returned"}
    /\ "u2" \in DOMAIN sessions
    /\ sessions["u2"].clarification_questions # <<>>
    /\ fsm["u2"] = "waiting_for_clarification_answers"
    /\ \E i \in DOMAIN tasks : tasks[i].user = "u2" /\ tasks[i].pc = "call"

(***************************************************************************)
(* C32. /accept and /rethink issued in showing_recommendations do what the *)
(* buttons do: the handler invokes the generation and does not end in an   *)
(* unhandled error; when the generation succeeds, /accept stores the       *)
(* document and sets prompt_generated, and /rethink stores the new         *)
(* recommendations.                                                        *)
(***************************************************************************)
C32_CommandsLikeButtons ==
    (/\ last.ev \in {"cmd_accept", "cmd_rethink"}
     /\ last.from = "showing_recommendations") =>
        /\ ~last.raised
        /\ Len(last.calls) = 1
        /\ ~last.calls[1].raised =>
               IF last.ev = "cmd_accept"
               THEN /\ fsm[last.user] = "prompt_generated"
                    /\ SessionView(sessions, last.user).current_prompt
                           = last.calls[1].value
               ELSE SessionView(sessions, last.user).recommendations
                        = last.calls[1].value

====
